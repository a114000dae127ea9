# A TLA+ model of the zsxq research pipeline

This directory keeps a formal model of the pipeline in `src/zsxq_pipeline`: a
program that a launchd timer starts every five minutes, that scans paid
communities for new research reports, downloads them, extracts and summarises
them, publishes the summaries to Lark documents and tells a chat about it. All
of its progress is kept in one SQLite database and in files, and every tick may
be cut off at any point. The model is about exactly that: what the durable
records still promise when processes die between two writes, leases run out,
remote calls land late, work is regrouped and an operator intervenes.

Contents: [the system](#the-system), [plan](#plan), [modules](#modules-and-the-code),
[runs](#runs), [fairness](#fairness), [proofs](#proofs),
[disagreements found](#where-the-code-and-its-documents-disagree),
[open hazards](#hazards-that-no-property-covers),
[not modelled](#what-is-not-modelled).

## The system

### Components, their state and their operations

| component | code | state it keeps | operations that change it |
|---|---|---|---|
| stage ledger | `state.py`, `model.py`, `schema.py` | tables `stage_attempts`, `leases` | `ensure_stage`, `claim_due_stage`, `complete_stage`, `fail_stage`, `requeue_succeeded_stage`, `apply_stage_retry_plan`, `import_stage_attempt` |
| source windows and schedule | `scheduler.py`, `state.py` | tables `source_windows`, `schedule_cursors` | `enqueue_due_windows`, `register_source_window`, `schedule_source_window` |
| download run | `worker.py`, `download.py` | table `documents`, DOWNLOAD stages, plan and manifest files | scan, register candidates, download, reconcile with the manifest, close the window |
| finalizer | `scripts/finalize_download_batch.py` | staging and archive directories, manifests | discover, credit duplicates, move, save the manifests |
| processing | `process.py`, `summary.py` | `artifacts`, the stages of a document, the summary store | list, extract, summarise, take lost texts up again, publish, settle |
| extraction | `extractor_worker.py`, `extract.py` | the cache of texts and of failures | direct text, OCR by two tools, tiles, the limit of a batch |
| publication | `publish.py`, `process._publish`, `lark.py` | table `publications`, PUBLISH stages, Lark documents | form groups, record the intent, mark the write, store the receipt, verify, complete |
| notification | `notify.py`, `state.py` | table `notification_outbox`, the chat | enqueue, supersede, claim, defer, send, settle |
| daily digest | `daily_digest.py` | `state.json`, `run.json` per day, one Lark document per day | prepare, research, verify, journalled writes, reconcile |
| tick | `worker.py`, `lock.py` | the runtime lock | schedule, digest, download, drain, process, drain |
| legacy import | `legacy_import.py` | all tables | one import into a new database, before activation |
| research library | `sidecars.py`, `scripts/research_*`, `scripts/archive_to_obsidian.py`, `scripts/kb_common.py` | catalogue, state of its sources, notes, the search table | persist, publish, archive, relabel, reconcile daily, rebuild |
| index pages | `scripts/update_obsidian_indexes.py` | pages rendered from the notes | render anew |
| search tools | `scripts/kb_*` | none that the pipeline reads | read-only answers |
| browser, Codex provider | `browser.py`, `scripts/scan_*`, `scripts/download_*`, `providers/` | none | remote calls with timeouts |
| configuration, command line, status | `config.py`, `cli.py`, `status.py` | plan files of `retry plan` | `retry apply`, manual ticks |
| installer, repository tools | `deploy/`, `scripts/git_workflow.py`, ... | releases, launchd | install, roll back |

### How they interact

A tick takes the runtime lock (`flock`), so one tick runs at a time; operator
commands such as `retry apply` take no lock and run beside it. Inside a tick the
components meet only through the database: the scheduler inserts windows, the
download run turns a window into documents and DOWNLOAD stages, the processor
lists documents whose next stage is due, claims stages, publishes groups of
documents and enqueues notices, and the drainer sends what the outbox holds.
Each database operation is one `BEGIN IMMEDIATE` transaction; everything larger
is a sequence of them with remote calls in between. Files carry the rest: the
finalizer meets the download run in two directories and a manifest, the extractor
meets the processor in a cache and a report, and the research library is a second
database that the worker, the daily reconciliation and a person's tools all write.

### What is hard

* A process may die after any transaction and after any remote call. What it had
  claimed stays claimed until a lease ends, in wall-clock time.
* A worker can outlive its lease, so an old owner and a new one can both run.
* A body sent to Lark cannot be asked for afterwards: a lost answer leaves the
  write uncertain for ever, and it may even land later.
* Identities are formed from groups, dates and paths, and a retry forms other
  groups, at another index and with another first member.
* "Covered" is computed from window ends, while windows are narrowed, coalesced,
  blocked and closed without being scanned.
* Messages wait, fail and are retried one by one, and still have to arrive in an
  order a reader can trust.
* Files are named after what a site calls them, so names and contents coincide in
  every combination, and a file is moved, listed and recorded in three steps.
* A batch of PDFs has one time limit and one report, so that one of them can take
  the time, the text or the verdict of the others.
* Two threads pay for model calls while the main thread settles them one by one; an
  answer is on disk only some steps after it was received.
* The files an index was made of are edited by people, and rows are found again by
  row ids that a rebuild gives to others.

The full list, with the line where each one bites and the property that looks at
it, is `hazards` in `PROJECT.json`.

### What makes each component correct

* **Stage ledger**: one live owner per row; only the latest owner records an
  outcome; the lease table agrees with the rows; a stopped row is reopened only
  by a reviewed plan that still fits; abandoned work is taken up again.
* **Source windows**: the checkpoint never claims more than was scanned; a window
  is closed only when every registered candidate is settled; owed candidates are
  looked for again.
* **Publication**: no report is written twice; a settled stage is really
  published, viewable, announced and projected; a document stays within its
  capacity; a recorded success is resumed.
* **Notification**: sent means shown; documents come before conclusions; only the
  latest conclusion is left; every notice is settled, unless conclusions crowd out
  the notice they wait for.
* **Download run and finalizer**: what is on record as downloaded stands in the
  archive, once and under its own name; a range that counts as covered has nothing
  left to fetch; every candidate settles while its window is listed.
* **Extraction**: no row of a page is lost between images; a PDF is given up for
  good only for a reason that lies in it; a batch that has too little time comes to
  its end over several runs.
* **Processing**: a stored answer is not paid for again; a summary is made of its own report;
  success means that every listed report is out; every report gets finished.
* **Research library**: the search shows what the writer vouched for and nothing
  else; an edit never replaces it; after a rebuild or a failure everything is found
  again.
* **Daily digest**: a write reaches the document once, unless an operator has
  denied it; what is shown was verified; a report is accounted for once and none
  is lost; a complete run is shown completely.

## Plan

Order of work, most important first. The first eleven are done.

1. `StageLifecycle` (abstract) and `StageAttempts`, with proofs of type
   correctness, exclusion, ownership, reviewed retries and the refinement.
2. `ReportDelivery` (abstract) and `Publication`, with proofs of type correctness, of
   delivery before settling and of the refinement.
3. `NotificationOutbox`, with proofs of type correctness, honest settling and the order
   of conclusions.
4. `SourceWindows`, with proofs of type correctness, checkpoint coverage and closing.
5. `DailyDigest`, with proofs of type correctness, of the accounting, of single
   publication, of what a document shows and of single writes.
6. `Processing`: the chain extract, summarise, publish with the summary store, with
   proofs of its types, of single payment and of honest success.
7. `Acquisition`: the download run with the files it moves, and the finalizer, with
   proofs of its types and its three invariants.
8. `OcrPlan` and `Extractor`, with proofs of the geometry, the types, the cache and
   of what is read.
9. `EvidenceIndex`: catalogue, notes and search table, with proofs of its types, of what
   the search shows and of what stays accepted.
10. Every property with a mutant, every module with a run.
11. Proofs about `Processing`, the rest of `Extractor` and the journal of `DailyDigest`.
12. `BatchProgress`: milestones and completion while the total grows.
13. `Tick`: order of phases, quotas and soft deadline; composition of 1 to 4.
14. The installer's activation and rollback; the legacy import into a live system.

## Modules and the code

Each module names points in time only as far as they matter: a lease that has
run out, a retry time that has come. `map` in `PROJECT.json` gives the lines of
every definition.

### StageLifecycle, StageAttempts

`StageAttempts` keeps the two tables by columns: `state`, `failure`
(`error_category` and `error_code`), `attempt_count`, `available`, `lease`
(token and expiry) and the table `leases`. Points in time are stored as the time
left until them, so one `Tick` lets a unit pass for all; 0 is "reached", which is
how the code treats NULL. `held[w][a]` is the `StageClaim` in the memory of worker
`w`, with its own copy of the expiry. One action is one transaction:
`ClaimDueStage` with the purge of expired lease rows and the order queued,
waiting, expired; `Release` is the common body of `complete_stage` and
`fail_stage`, guarded by `Holds`, which like `_assert_claim` looks at state and
token and not at the expiry; `LeaseLost` is the `LeaseLostError`; `Crash` loses a
worker's memory; `PlanStageRetry` and `ApplyStageRetryPlan` are the two operator
commands, with a plan file that may be applied late or twice;
`ImportStageAttempt` is the upsert of the legacy import, which the runbook puts
before activation (`activated`). `latest` is a history variable: the last token
with which a row was claimed. `Relisted` are the lanes whose due rows every tick lists;
the DOWNLOAD lane is not one of them, which matters for liveness only.

`StageLifecycle` forgets leases, clocks, categories and workers: an identity is
opened, taken over in turns, settled by the owner of the turn, reopened by the
two repair operations, imported before activation.

### ReportDelivery, Publication

One publishing process, the table `publications` as a set of rows, and Lark.
`StartRun` claims the due reports and forms the groups (`Chunks`); the steps
`RecordIntent`, `MarkInFlight`, `SendBody`, `RecordRemoteWrite`, `VerifyRemote`,
`CompletePublication`, `QueueDocumentNotice`, `ArchiveSidecar`, `CompleteStage`
are the writes and calls of `publish_group` and `_publish` in their order, with a
`Crash` possible between any two. `Land` is Lark writing a body, at any time
after it was sent. `Rejected` is an answer taken to say that nothing was written, which the
model believes, while the code has only the error to tell it by (`publish.py:437`);
`WithoutReceipt` is every other error. `RefuseWrite` is the guard
`_guard_prior_body_writes`. A group's digest is its set of members and its
partition key that set with its index and its date, which is that of its first member
(`DateOf`, when that PDF was last modified), so a regrouped retry really has another
identity. `day` is the field of that date. `ReportDelivery` says what is promised of each report:
`unsent`, `uncertain`, `written`, `published`, and never a second write.

### NotificationOutbox

Rows of the outbox with their status, whether their time has come, and the order
of insertion; one process that produces and drains. Lark shows a message once per
idempotency key, so a message sent again is not a second message. `ClaimDue`
follows the order of `claim_due_notification`; `Defer` is the
`document_before_terminal` rule of the drainer; the two transactions of
`enqueue_terminal_notification` are two actions with a crash between them.

### SourceWindows

One source. A window is a pair of instants, `status` its row, the checkpoint the
latest end of a window in `succeeded` or `legacy`. `EnqueueDueWindows` is one
transaction with the cursor. A tick lists the pending windows (`ListWindows`) and
for each closes it as covered (`SettleCovered`) or takes it, narrowed or whole
(`TakeWindow`); then the download run scans, registers the window and its
candidates one by one, claims and downloads, finalizes, settles and closes. The
result of a scan is any subset of the documents posted in the range, since
visibility and keywords change. `covered` is a history variable: the time spans
that were scanned with all candidates found put on record.

### DailyDigest

`active`, `completed` and `seen` are `state.json`; the columns from `records` to
`confirmed`, indexed by the day, are the `run.json` files, which stay on disk.
`StartRun` and `Activate` are the two writes that begin a run, `ReadBack` (or
`NothingToPublish`) and `Settle` the two that end it; a worker that died between
the latter is continued by `Resettle`. `Prepare`, `Research`, `AcceptItem`,
`RejectItem` and `StartPublishing` are the checkpoints of `_advance`; each ends in
one write of `run.json`, so a crash within one is a step that did not happen. The
last one is two: `ReadBack` reads the document and `SaveReadBack` writes that it is
complete, with time for a reader between them. Every item has one chart. A
write to Lark is three steps: `Intend` (durable), the call (`WriteReturns`, or
`WriteRaises` with the write applied, lost or still on its way), `RecordReceipt`.
`ReconcileApplied` reads back the prefix, `ReconcileNotApplied` believes the
operator. A document is the sequence of operations it shows, so a read-back is
`Matched`: the operations found one after the other, whatever stands between.
Hashes are the `Pdf` of a report; the model's answer is any proposal, and the
contract `Accounted` decides whether it is kept.

### Processing

The processor of one source. `extract`, `summary` and `publish` are the three stage
rows of a document; `artifact`, `named` and `cached` say where its text is (the file
named after the PDF, the extractor's cache); `entry` is the summary store. The second
block of variables is the memory of `process_batch`, which a `Crash` forgets.
`Listed` is `list_documents_for_processing` with its order and quota, `StartBatch`
the claims and the texts taken up again, `RejectBatch` a manifest refused because
two documents share their bytes. `ExtractFile` to `FinishExtract` is `_extract`, in
which one overwritten text spoils the whole report. `PrepareSummary` looks a summary
up or queues a job. `StartCall`, `ReceiveAnswer`, `StoreAnswer` and `CallFails` are the threads,
which store a valid answer before their siblings have ended; a `Crash` or a failing write
(`StoreFails`) between receiving and storing loses an answer that was paid for (`lost`).
`CommitOutcome` is the main thread going through the results; the artifact on
record for a summary may not admit another content (`recorded`). `ClaimPublish` to `CompletePublish` is `_publish`
with the group taken as one; its inside is `Publication`. Leases and points in time
are left to `StageAttempts`: a waiting or abandoned row becomes due by `Elapse`.
A text is the PDF it was made of. Where the code compares a text with what it counted
(`Overwritten`, `StartCall`), the number of characters decides and nothing else, so two
texts of one length (`Chars`) pass for each other.

### Acquisition

The same download run as in `SourceWindows`, seen from the files. `Scan` is the plan
and the registration of its candidates, which skips archived names and namesakes.
`NotDue`, `Collide`, `Download`, `Refuse`, `Raise` and `RaiseUnusable` are one turn of the
loop over the plan. `Raise` is every exception that is not a Playwright timeout, which
leaves the run with its claims; `RaiseUnusable` is the one that a name that is no PDF's
(`unusable`, any of the `Doubtful` ones) raises at every run. `reauth` are the rows with the error code of a
lost login, which a claim does not clear. A window set to "blocked" is not `Listed`, so
that no scan comes back to it. The finalizer goes through the plan (`CreditDuplicate`,
`MoveToArchive`, `PassOver`), knows only files that came after the run began
(`fresh`), and saves the two manifests at the end, one after the other. Then the claims
are settled by what it reported: the artifact, the stage and the extraction to come
(`EnsureExtract`, `queued`) in three transactions. `cutOff` and
`removed` are history: documents downloaded by a run that did not settle them, and
names removed from the archive by hand.

### OcrPlan, Extractor

`OcrPlan` is a module without variables: at which resolution a page is drawn, and
into which tiles it is cut when no resolution fits (`plan_page_ocr`,
`plan_document_ocr`). The code multiplies floats; here the products are exact. A page is
as wide and high as it is drawn: that the planner reads no rotation from pdfinfo is no
part of the model.
`Extractor` takes a batch of PDFs through one subprocess. Each phase is one tool:
`LookUp` (the cache), `DirectGood` and `DirectPoor` (pdftotext), `Probe` (pdfinfo and
the plan), `Ocrmypdf`, `Draw` (one image by pdftoppm and tesseract), `Judge` and
`Category` (`classify_runtime_failure`). `DrawTooLarge` is the second plan, of tiles,
after an image went over a limit. Writing a text is two steps, since the file is
emptied before it is filled, also for a text that came from the cache; `Crash` and
`SubprocessDies` may come between. `clock` counts drawn images, and the time of an
ocrmypdf that fails after a while. `TimeUp` is the adapter killing the subprocess in
the two OCR phases, the only ones that take time here; a kill in another phase is
a `Crash`. The report covers the whole batch or nothing of it.
`Upgrade` is a release with another `CACHE_VERSION`.

### EvidenceIndex

Two kinds of rows share the search table: those of notes, and those that the
catalogue owns by row id. `summary` and `note` are files with a stamp for what
`stat` says of them; `row`, `evidence`, `search` and `index` are the four tables.
`Refreshed` is `refresh_catalog_source`: only a writer that names the text it means
(`expected`, the hash the code passes) can have another one accepted. `Upsert` and
`SettleEntry` are a look at the files and the read that follows it, in one transaction
that other writers wait for (`Unlocked`) and that files do not. `Persist`,
`ArchivePublished`, `WriteNote`, `Enrich` (the note), `Relabel` (its entry and signature),
`Load` and `IndexNote` are the sidecars and the archiver;
`StartReconcile` to `FinishCatalog` the daily reconciliation, note by note and source
by source; `BeginRebuild`, `DropTable` and `FillTable` the rebuild, which reads first
and drops later, outside any transaction. `EditSummary` and `EditNote` are people,
`Backfill` the maintenance tools, `WorkerDies` a crash of the worker or of a script it
runs. `Filled` is a table with rows of notes added in the order of the reports: the place
of a row is the number of notes before it, so that no recursion is needed to say it.
The names of this module (`IndexInit`, `IndexSpec`, `IndexTypeOK`) leave room for those
of `NotificationOutbox`, since one module has the proofs about both.

## Runs

| run | instance | shows |
|---|---|---|
| `stage_attempts` | 2 rows, 2 workers, 1 lane, lease 1, delay up to 1, 2 claims per row | exclusion, lease table, ownership of outcomes, reviewed retries, refinement of `StageLifecycle` |
| `stage_liveness` | 1 row, 2 workers, lease 2, delay up to 2, 3 claims | abandoned work of the lanes that every tick lists is reclaimed |
| `publication` | 2 reports, 3 documents, groups of 2, capacity 2, one date, with and without a configured document | settled means delivered, refinement of `ReportDelivery` (no second write) |
| `notification_outbox` | 1 document, 2 run conclusions, 1 batch completion | sent means shown, documents before conclusions |
| `notification_liveness` | 1 document, 2 batch completions | every notice is settled, unless two conclusions are open again and again |
| `source_windows` | 3 slots, 1 candidate, look-back 2, instants 0 to 4, after an import | checkpoint is coverage, closed means settled |
| `daily_digest` | 2 reports, 2 days, 2 items and 2 drafts per run, 1 denial or deletion | nothing lost, published twice, written twice or shown unverified; complete means that a read had just shown it |
| `processing` | 3 reports, two of the same bytes, one unreadable, quota 2, 2 threads, 2 faults | a stored answer is not paid for again, success is complete, every report is finished |
| `processing_one_name` | 2 reports whose texts share a file, quota 1, 1 fault | violated: the summary of one report made of the text of another |
| `acquisition` | 4 files, two of equal bytes, two of equal name, two of which may have a name that is no PDF's, 2 faults | settled means archived, once; covered means archived; every candidate before an unusable one settles while its window is listed |
| `extractor` | 5 PDFs (good text, unreadable scan, two pages, tiles, too wide), scaled limits, time for 4 images, 2 versions, 2 faults | every row of a page is read, the cache tells the truth, every PDF is concluded |
| `evidence_index` | a new and an older report, 2 texts and one that must not be shown, 3 events | the search shows what was accepted, only the writer replaces it, everything is found again |

Why these bounds are enough: two workers are all it takes to overtake, two rows to
give a retry plan a second candidate and a claim a choice, and the second claim of
a row is the one that races with the first; a lease of one unit already has a
before and an after. Two reports are the smallest batch that can be split,
regrouped and half settled, and a retry of one of them has another partition key; groups
of one report, by which a report comes back under another index, and two dates are
`PublicationKeys.cfg`; one document per report and one for the configured target leave
room for any sequence of writes, and a third copy would need a second one before it. Three slots allow a
failed window, a later one that overlaps it and a third that is narrowed by the
second. A second draft is what a stale
verification needs, a second item makes it partial, a second day is where a report
could come again, and one denial already allows a block to stand twice. A quota
below the number of reports makes batches that differ, and equal bytes make them
share a cache entry; two faults are a failure and a crash in the recovery from it.
The four files are every combination of equal and different name and content. The
five PDFs take every branch of the plan and of the extraction, with limits scaled to
a few pixels, which keeps their order; four images are fewer than the batch needs,
so that runs are killed, and no less than its longest PDF. One report of the index
has the past the migration finds, one has none; three events are a publication, an
edit or rebuild in its middle and a failure after it.
`CHECK_DEADLOCK FALSE` stands where the system may come to rest: in `SourceWindows`
and `DailyDigest` the last instant or day ends time, in `Processing`, `Acquisition`,
`Extractor` and `EvidenceIndex` everything may be finished with no fault left. The
bounds are `MaxAttempts`, `LeaseTime` and `MaxDelay` of `StageAttempts`, `LastInstant` of
`SourceWindows`, `LastDay`, `MaxItems`, `MaxDrafts` and `MaxFaults` (denials and deletions together) of `DailyDigest`, `MaxFaults` of
`Processing`, `Acquisition` and `Extractor`, `MaxVersion` of the last, and
`MaxEvents` of `EvidenceIndex`; `NotificationOutbox` and `Publication` have
none but their finite sets of keys, reports and documents. Times of steps are not
bounded anywhere: a run of the extractor, a window or a notice may be retried for ever unless fairness ends it.

Every property has a mutant of the code that breaks it (`mutants` in
`PROJECT.json`); the mutated forms stand in the modules just before the
definitions they replace.

## Fairness

* `StageAttempts!FairSpec`: time passes, the runtime is activated in the end, and a
  row of a `Relisted` lane that stays due is claimed by some worker. The code justifies
  it because launchd starts a tick every five minutes, and a tick lists due rows of
  TEXT_EXTRACT, SUMMARY and PUBLISH by their state alone. A DOWNLOAD row is claimed only
  while its window is listed and a scan shows its candidate, so no fairness is assumed
  of that lane and nothing is promised of it.
  A worker need not ever finish: it may crash each time, the row is claimed again.
* `NotificationOutbox!FairSpec`: every tick drains; time passes; a row that is due
  again and again is claimed again and again (rows of a class are ordered by age);
  Lark takes a row that is sent again and again; a process that acknowledges again
  and again does not die each time before. No fairness is assumed that would give a
  row of a lower class its turn before the higher ones. So the notice of a dead sender
  can wait behind two deferred conclusions for ever: `EveryNoticeSettles` excepts
  behaviours in which two conclusions are open again and again (`Crowded`), and
  `NotificationStarved.cfg` shows why.

* `Processing!FairSpec` and `Acquisition!FairSpec`: the process takes its steps and
  every waiting row becomes due. Ticks come every five minutes and a batch has no
  step that waits for another process; failures are never fair, so nothing has to
  go wrong and nothing has to stop going wrong but by `MaxFaults`. In `Acquisition` a tick
  scans a window that is `Listed`, and no other. An unusable name is no fault and goes wrong
  at every run, so `EveryCandidateSettles` speaks of the candidates before it (`Starved`),
  of windows that do not end "blocked", and of runs that were not cut off with a file.
* `Extractor!FairSpec`: the worker takes its steps, and a batch that was killed is
  claimed again.
* `EvidenceIndex!FairIndexSpec`: the worker goes on day after day, and a rebuild that was
  begun and does not die gets the lock in the end (a connection waits 30 seconds for it; the worker
  holds it for one report or one reconciliation).

All other runs check safety and need no fairness.

## Proofs

`StageAttemptsProofs` proves about `StageAttempts`, for any sets of rows, workers,
lanes and codes and any lease time, delay and attempt bound:

| theorem | property |
|---|---|
| `TypeCorrect` | `TypeOK` |
| `ExclusiveClaims` | `LiveClaimsExclusive` |
| `LeaseTable` | `LeaseTableMirrors` |
| `OutcomesOwned` | `OutcomeByLatestClaimant` |
| `RetriesReviewed` | `RetryIsReviewed` |
| `RefinesLifecycle` | `ImplementsLifecycle` |

Assumptions: `LaneAssumption` and `BoundAssumption`, nothing else. The argument is
one inductive invariant, `IInv`. None of the properties is inductive alone, since
two workers may both remember a claim on a row; what keeps them apart is that
tokens are never used twice. Its parts: no token in use is newer than the last one
issued (`TokensFresh`); a row carries a lease exactly while it is running, and then
the one it was claimed with last (`RowsOwned`); a claim with time left is the
current lease of its row, with the same time left (`LiveClaimsCurrent`) — this is
where the purge, the expiry and the equal copies of an expiry meet; the lease table
agrees with the rows (`LeaseTableAgrees`); a saved plan that has been overtaken
names a smaller attempt count (`PlanCounts`), which is why a fingerprint without
the count would not do. Preservation is one lemma per way a row changes (time,
claim, release, forgetting, rows at rest), and the step lemma `Inductive` sends
each action to one of them. The action properties and the refinement are then one
case per action from `IInv`.

`DailyDigestProofs` proves about `DailyDigest`, for any reports and hashes, any
seed and any bounds (the assumptions `BoundsAreNaturals` and `SeedIsHistory`: the
imported editions are not later than the first day):

| theorem | property |
|---|---|
| `TypeCorrect` | `TypeOK`, with the ranges of the journal |
| `SeenAccounted` | `SeenIsAccounted` |
| `ReportsOnce` | `NoReportTwice` |
| `VerifiedOnly` | `ShownIsVerified` |
| `CompletionIsShown` | `CompleteIsShown` |
| `WritesOnce` | `AppliedOnce` |

`TypeCorrect`, `SeenAccounted` and `ReportsOnce` rest on an inductive invariant of two layers. `FilesFit` is about
control: a step that stands between two writes stands where its files say
(`StepsFit`), runs follow each other in time, so that a new run never overwrites a complete one (`RunsInOrder`),
and nothing is written before publication (`JournalFits`). `Accounts` is about the
reports: a checked draft divides its inputs (`DraftsDivide`), and the run in
progress holds unseen hashes only (`RunsAreNew`), also while `state.json` does not
name it yet. `SeenIsAccounted` needs the first when a run settles, `NoReportTwice`
the second when one is published.

What the documents show needs the traces of a write (`TracesHold`). An operation is
issued when its day is being published and it belongs to the day's draft; from then
on the draft and its checks stay as they are (`PublishedIsFrozen`), so it stays
issued. Only issued operations are on their way or in a document, and only in
documents of their own day (`BlocksFit`, `WritesFit`), and the checks of a published
draft are complete and all of that draft (`ChecksFit`). `CompletionIsShown` needs two
facts: a read ends well only if the document shows its title and every item in order at
that moment (`ReadBackShows`), and the phase of a day with items changes to complete
only in the step after such a read (`CompletedByReadBack`). A reader who changes the
document between the two is not noticed any more, and the property does not claim it.

`WritesOnce` is a count (`TriesHold`). For every operation of a day, the blocks a
document shows, the calls that may still land and the call that is about to be made
are together no more than what the journal stands for: one if the operation is behind
the receipts or is the intent, and one for each time an operator declared it not
applied (`TriesFit`). A call that lands moves from one term to another; a crash
removes the call that was about to be made, and the intent it leaves behind keeps the
worker from making it again. The property on documents alone is not inductive, since a
late call may land in any later state. The counts are cardinalities of sets of
positions (`Times`), which the provers can reason about, unlike the sequence operators
of the libraries that are recursive.

`ExtractorProofs` first proves about `OcrPlan`, for every page and every set of limits
that satisfies `OcrPlanAssumption`:

| theorem | says |
|---|---|
| `EveryRowIsInAnImage` | if a plan is made, each row of pixels of the page as drawn is in one of its images |
| `EveryImageIsWithinLimits` | no image of a plan is wider, higher or larger than the limits |

The argument: a quotient rounded up times its divisor reaches the dividend
(`DivBounds`, `CeilDivBounds`), so the last tile ends at the last row
(`TilesReachTheEnd`); a row lies in the tile whose number is the row divided by the
distance of two tiles, or in the last one (`RowInTile`); and a tile that is higher
than twice the overlap is never more than the limits leave (`SafeTileBounds`).
Nothing is assumed of how the limits relate to each other: a page for which they leave
no tiles gets no plan.

It then proves about `Extractor`, for any PDFs, pages, limits and number of releases
and faults (`ExtractorAssumption`, `OcrPlanAssumption`):

| theorem | property |
|---|---|
| `CacheIsTruthful` | `CacheTellsTheTruth` |
| `TypeCorrect` | `TypeOK` |
| `AllRowsAreRead` | `EveryRowIsRead` |

The first property speaks of entries; what has to be carried along is what the batch
knows while it works on a PDF: each error it has noted has a cause in the PDF itself,
so that a failure is only kept when the cause will be there the next time
(`ErrorsFit`), no entry is newer than the release (`CacheFits`), and the text being
written is whole, or one that was cut before (`WritesFit`). Most steps write nothing
(`QuietKeeps`); the rest has one lemma per group of handlers.

The other two are proved together (`WorkHolds`): the plan in hand is that of the PDF
in hand, and what was read are the rows of all pages before the current one and of
the images of this page before the next (`DrawFits`). Neither is inductive alone,
since the number of an image has its range from the plan. When the last image of a
plan was read, the rows of the page are those of its images by the theorem about
`OcrPlan`, and the pixels drawn add up to what was projected, page by page; the sum
over a document is a recursive function of the number of pages for that
(`PixelsUpTo`).

`ProcessingProofs` proves about `Processing`, for any finite set of numbered
documents, any PDFs and names they share, any quota, one worker or two, with a
library and a vault or without (`ProcessingAssumption`):

| theorem | property |
|---|---|
| `TypeCorrect` | `TypeOK` |
| `PaidForOnce` | `PaidOnce` |
| `SuccessMeansPublished` | `SuccessIsComplete` |

The inductive invariant says how the rows of the three stages, the claims in memory
and what the batch remembers of a document fit together. A stage has begun only when
the one before has succeeded, and a summary that succeeded has its entry in the store
unless somebody damaged it (`RowsFit`); a claim is held in its own phase only, over a
running row (`ClaimsFit`); the documents of a batch have different bytes and are not
published yet (`BatchFits`); who is asked for a summary has a claim and a text
(`MemoryFits`). `PaidFits` is `PaidOnce` some steps earlier: a PDF that was paid for has its entry, or an
answer still with its thread, or has lost either; and a job that is queued, not only
one that is being called, is not for a PDF whose answer was stored. That needs the
different bytes: otherwise the answer to one job would pay for the other one in the
queue. `OnTrack` follows every document of a batch in which nothing has failed through
the loops: behind the index the document has reached the next stage, ahead of it it
still holds its claim. Without it nothing would say that a success at the end
speaks of the documents the loops passed over. The list of due documents is any list
of the set in order (`InOrder`); that one exists is proved from the ranks of its
members (`ListedAreDue`, and `BatchIsListed` for `Extractor`).

`SummariesAreTheirOwn` is the other side of the run that ends in a violation: as long as
PDFs of different bytes have texts of different names (`OwnNames`), a committed summary is
made of the text of its own report (`SummaryIsOfItsReport`), whatever is lost, damaged or
tried again. The condition cannot be dropped: `processing_one_name` is an instance without it
and loses the property. A file in the output directory holds the text of a PDF of its name,
and what the batch has read is that text, so it does not matter that texts are told apart
by their length only (`TextsFit`).

`AcquisitionProofs` proves about `Acquisition`, for any files in any order, any names
and contents shared between them, any of them unusable, and any number of faults
(`AcquisitionAssumption`):

| theorem | property |
|---|---|
| `TypeCorrect` | `TypeOK` |
| `RecordsAreArchived` | `SettledIsArchived` |
| `ContentsOnce` | `ArchivedOnce` |
| `CoveredIsComplete` | `CoveredIsArchived` |

A record is made from what the finalizer reports, and the report from what was in the
staging directory, so the invariant follows a file along the way: a plan has no
namesakes, and what the run completed has its artifact (`RunFits`), a name the run downloaded is staged with the bytes of the file
that was planned (`StagedFits`), the archive has the bytes of the first file of a
name (`ArchiveFits`), and what is reported is archived, and listed once the manifests
are saved (`FoundFits`). That the first file of a name is unique (`NoNamesakes`) is
what keeps a move from overwriting. `ScanFits` is for the window: a document without a
record was archived when the scan left it out, or is a namesake.

`PublicationProofs` proves about `Publication`, for any finite set of numbered
reports, any documents, group sizes and limits, and any dates that do not decrease in
publication order (the four assumptions of the module):

| theorem | property |
|---|---|
| `TypeCorrect` | `TypeOK`, with the unique key of the table |
| `SettledAreDelivered` | `SettledIsDelivered` |
| `RefinesDelivery` | `ImplementsDelivery` |

The code keeps rows by group, date and document, the contract is about single reports.
What links them is that a report is in one row at most that may have led to a write
(`OneWritten`); the guard against touched reports gives that when the marker is set,
since nothing is sent without the marker. A report's text was then written at most
once, and exactly once if its row has a receipt (`CopiesFit`); a call that may still
land is the only one for its reports, none of which was written (`CallsFit`): this is
what makes a late call harmless after any number of regroupings. All of it holds as far as a
refusal says truly that nothing was written (`Rejected`). `RowsFit` says that
rows with a receipt, and rows that continue a document, name one the chat may read,
and `PhaseFit` what the process knows of its row in each phase. For the refinement the
rows that may have led to a write decide what is known of a report (`KnowledgeIs`), so
each of `MarkInFlight`, `Land`, `Rejected`, `RecordRemoteWrite` and
`CompletePublication` is one step of the contract for the members of the group, and
everything else a stutter.

`AfterPublicationProofs` proves about `NotificationOutbox`, for any finite set of notices
and whatever each announces (`EventAssumption`, `NoneAssumption`, `NoticesAreFinite`):

| theorem | property |
|---|---|
| `TypeCorrect` | `TypeOK` |
| `SettlingIsHonest` | `SettledHonestly` |
| `ConclusionsComeLast` | `DocumentsBeforeConclusions` |

The invariant adds one fact: if the drainer remembers that Lark accepted, it is about
the notice it has claimed, and that stands in the chat (`AnswerFits`). The action
property is then about the one step that shows a message: a conclusion is sent only
when no document is pending (`MayBeSent`), and a document that is not pending and has
a row is sent or failed for good, since documents are never superseded.

The same module proves about `EvidenceIndex`, for any finite set of numbered reports, any
texts and labels, and any number of events (`EvidenceAssumption`):

| theorem | property |
|---|---|
| `IndexTypeCorrect` | `IndexTypeOK`, with the screening of what is indexed |
| `SearchIsTruthful` | `SearchShowsTheAccepted` |
| `AcceptedStays` | `AcceptedIsKept` |

A state is not what its file says, since files change at any time; what can be kept is
that it says so as long as the file has the stamp of its signature (`StateFits`). That
holds through an edit because a new stamp is none that any signature has
(`FitsSurvive`), and through a read that comes after the look at the stamp because a
file can only be newer than the look, never older. The second clause needs that a file
that was missing at the look is missing still (`Signed`): nobody creates a summary but
the worker, who is busy. Row ids are used again after a rebuild, so a state may name a
row of somebody else; the invariant goes from the rows to the states and not back
(`OwnedFit`): a row of the catalogue belongs to a state that is ready and names it.
A reconciliation prepares states and rows in a transaction and commits them later. What
it holds has to fit the files as they change meanwhile (`PendingFits`), and it starts
from what was accepted only because each report it has not come to is as it was
(`Ahead`). Without `KeepsAccepted` for the open transaction nothing would say at the
commit that what was accepted is kept. One lemma, `RefreshedFits`, speaks of
`refresh_catalog_source` for all of its callers, and one of what a step leaves as it is
(`TablesLast`, `JobLasts`, `RowsChange`); each action is then a lemma of its own. The
rows of a table are a function with finitely many ids, and that `Max` of them exists,
so that a new row takes no id in use, comes from the well-founded order of the numbers
(`LargestExists`).

`SourceWindowsProofs` proves about `SourceWindows`, for any documents, schedule,
lookback and clock (`BoundIsInstant`, `PostedAtInstant`, `SlotsAreInstants`,
`LookbackIsSpan`):

| theorem | property |
|---|---|
| `TypeCorrect` | `TypeOK` |
| `CheckpointIsHonest` | `CheckpointIsCoverage`, when the cutover imported a window |
| `ClosingIsSettled` | `ClosedWhenSettled` |

`CheckpointIsHonest` assumes `Imported`, and has to: without an import the property
fails (`SourceBootstrap.cfg`). The checkpoint is a maximum of window ends, so the
invariant says of every window that all before its beginning was scanned, and before
its end if it is eligible (`WindowsFit`); both follow when it is enqueued, since it
begins at the checkpoint, and when a run that scanned only its end closes it, since
the rest lies before the checkpoint (`RequestFits`). That the latest end exists needs
that instants are bounded, by the library's well-founded order of the numbers
(`LatestExists`). For `ClosingIsSettled` the candidates of a run are at home in the
range it scans, and the part of the window it leaves out owes nothing (`DebtsFit`).

Model-checked only: all liveness (`AbandonedWorkIsReclaimed`, `EveryNoticeSettles`,
`EveryReportIsFinished`, `EveryCandidateSettles`, `EveryPdfIsConcluded` and
`EverySourceIsFound`), which rests on fairness and is out of the prover's reach. Every
invariant and action property and both refinements that a passing run checks are
theorems. What the configurations named in the next section refute is no theorem;
`CheckpointIsCoverage` and `SummaryIsOfItsReport` are under their conditions.

## Where the code and its documents disagree

The run `processing_one_name` checks a statement of the repository and ends in a
violation: `process.py:770-771` calls a completed extraction immutable input, yet
its text is a file named after the PDF, and a second PDF whose name is cut to the
same overwrites it; when the summary is tried again, it is made of the other
report's text and committed (`findings` in `PROJECT.json`).

Eight more configurations are kept beside the modules, each for one statement that
the code does not keep. Give one to `tlc` with its MC module to see the counterexample:

| configuration | module | property | what happens |
|---|---|---|---|
| `PublicationResume` | `MCPublication` | `SuccessIsResumed` | a publication that succeeded is not resumed once its group changes |
| `PublicationCapacity` | `MCPublication` | `CapacityIsKept` | same-day capacity counts only the group that created the document |
| `NotificationStarved` | `MCNotificationOutbox` | `DeadSendersAreReclaimed` | `state.py:1949-1951`: a crashed sender is reclaimable after its lease expires. Its row ranks behind every retry that is due (`state.py:1975`), and a drain stops at the first notice it defers; while one of two conclusions is deferred for that notice, the five minutes of the other end, so one of them is due at every drain |
| `NotificationOrder` | `MCNotificationOutbox` | `ConclusionsInOrder` | a conclusion being sent is not superseded, so an older one may follow a newer one |
| `SourceBootstrap` | `MCSourceWindows` | `CheckpointIsCoverage` | before the first checkpoint, without an import, a failed window can be closed as covered |
| `SourceOwed` | `MCSourceWindows` | `OwedIsRevisited` | a window blocked for another reason than the login is never listed again, and what it owes is lost |
| `AcquisitionCutOff` | `MCAcquisition` | `CutOffDownloadsRecover` | `docs/runtime-recovery.md:17`: a PDF downloaded by a run that was cut off stays in the staging directory, where it blocks its own name (the document says downloaded PDFs retain their recovery path) |
| `ProcessingNoVault` | `MCProcessing` | `EveryReportIsFinished` | `sidecars.py:154-155` speaks of installations that intentionally have no vault; there the adapter archives no note, the processor expects one per report, and publication is retried for ever |

`PublicationKeys.cfg` (with `MCPublication`) is one more instance that keeps what `publication`
shows: groups of one report and reports of two dates.

Further differences met while modelling, which have no configuration:

* A report whose text differs from the writer's hash at its very first indexing
  becomes `source_changed`, but with no accepted hash to keep the hash of the
  unattested text is stored, and a later reconciliation of the touched file takes it
  for the accepted one; the repository's `README.md:57-62` says that only the
  writer's attestation binds a text.
* The note is looked at (`stat`) after it was read, so an edit in between is stored
  as already indexed until the next one.
* `refresh_catalog_source` signs a source again after it has read it when broker or
  date are inferred (`research_evidence_index.py:255`), with the same effect.
* A hit in the text cache empties and rewrites the file in place; killed between, it
  leaves a cut text that counts as a success (`extract.py:193-199` calls a bad
  text of a claimed success an error; what is looked at is whether there is any).
* Not a disagreement, but a surprise: a report relabelled by a tool is
  `source_changed` until the writer attests it again, and keeps the reconciliation of that day open.

## Hazards that no property covers

`PROJECT.json` lists the hazards with their properties. Those that remain open, for
later work: the two transactions behind a new conclusion (`notify.py:161`); a
document notice that is lost with its error (`process.py:1262`); a batch that
repeats a path and is refused at every tick (`process.py:650`, excepted in
`EveryReportIsFinished`); the list looking at the latest summary attempt of any
version (`state.py:481`); a digest stopped by a reader's change until an operator
decides (`daily_digest.py:571`); a batch total that grows after its announcement
(`worker.py:515`); an import into a system that is already running
(`state.py:1284`); an extraction subprocess that exits with an error and blocks every
claim of its batch (`process.py:839`, an action of `Extractor`, no property); PDFs
whose tools take longer than the limit of a whole batch, which starve those behind
them (the runs give the longest PDF enough time, and a failing ocrmypdf costs no more
than one unit of it); a late block beside the ones a read-back accepts
(`daily_digest.py:396`); a refusal by Lark of a body it has written after all
(`publish.py:437`); a name that is no PDF's, which stops every run before the
candidates behind it (`scripts/download_zsxq_plan_file.py:313`, an action of `Acquisition`,
excepted in its property); pages with a rotation (`extractor_worker.py:159-181`).

## What is not modelled

* The contents of PDFs, summaries, documents and messages, and all formatting.
* The title of a Lark document, which is set and verified with the body.
* Browser automation, page parsing, keyword matching: what a scan finds is any
  subset (`SourceWindows`) or given (`Acquisition`). Of the finalizer, the review
  list, dry runs, and how names and dates are spelled.
* The Codex child process, its schema and the local routing of PDFs: a call answers,
  times out, fails or is rejected.
* Of the extraction: prepared clean text, OCR switched off, the merging, cleaning and
  measuring of texts (a text is good, degraded or poor), the preflight, and the
  rounding of floats. The deadline of one document is an interruption at any time.
* Of the research library: entries whose broker or date has to be inferred, a note
  standing in as the source of an entry without a summary, the event trace, the
  limit on updates of one reconciliation, and the index pages, which
  `update_obsidian_indexes.py` renders anew from the notes.
* The queries, their ranking, and the extraction of labels from a text.
* Output artifact ids and error texts of stages; run records; health.
* The order of the phases in a tick, its quotas beside the processing one and the
  soft deadline (planned as `Tick`); in each module a tick may end early, which
  includes them.
* Several sources at once: windows, checkpoints and batches are kept per source.
* Schema migration, the installer, parsing of legacy files, configuration, status
  reports, repository tools.
