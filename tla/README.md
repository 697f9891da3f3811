# Verification of SmartQuote AI

SmartQuote AI takes a tender from its documents to a recommended supplier. A
FastAPI process serves requests, Celery workers run the long operations, and
both meet in one relational database. This directory holds TLA+ models of the
parts of that system whose correctness depends on the order in which requests,
workers, retries and failures happen, the TLC runs that check them on small
instances, and the proofs of their main invariants for every instance.

Everything below refers to `src/backend/app/`.

## 1. The system

| Component | State it keeps | Operations | Meets the others through |
|---|---|---|---|
| Tender lifecycle (`domain/tenders`, `use_cases/tenders.py`) | `tenders.status`, archive mark | create, update, archive | read by every component; moved by uploads, quotes and comparisons |
| Document upload and text pipeline (`use_cases/documents.py`, `document_processing.py`, `tasks/document_pipeline.py`) | document status, extraction runs, pages, qualities | upload, delete, claim, extract, evaluate, finalise, periodic scan | queue `document-processing`; feeds the catalog |
| Catalog extraction and review (`use_cases/catalog.py`) | AI runs, products, revisions, snapshots | request, run, edit, approve, reject, snapshot | queue `ai-extraction`; feeds suppliers, RFQs, quotes |
| Supplier discovery and review (`supplier_discovery_v2.py`, `suppliers.py`) | staged runs, suppliers, contacts, matches, merge suggestions | request, five stages, approve, reject, merge | queue `supplier-discovery`; approved suppliers receive RFQs |
| RFQ workflow and delivery (`rfq_workflow.py`, legacy `rfqs.py`) | RFQ status, version, key, e-mail attempts, task rows | generate, edit, review, approve, queue, send, retry, cancel | queue `rfq-delivery`, SMTP; a sent RFQ opens the quotes |
| Quote analysis and review (`quote_analysis.py`, `quotes.py`, `tender_workflow.py`) | quote status, documents, extraction runs, items, task rows | upload, analyse, reanalyse, process, reprocess, edit, approve, reject | queue `quote-analysis`, AI provider; approved quotes are compared |
| Comparison and recommendation (`comparison.py`, `recommendation.py`) | immutable comparisons and recommendations | generate (reused by key) | read approved quotes and snapshots |
| Deterministic rules (`services/*.py`) | none | extraction fallback, quality decision, units, matching, compliance, deduplication, comparison builder, recommendation engine | called inside the operations above |
| Schema (`alembic/versions`, `db/models`) | every table: status checks, unique keys | upgrade, downgrade, what they do to rows | is what all of them read and write |

How they interact: a use case opens one unit of work (one transaction) or
several in sequence; rows read with `for_update` are locked until the commit.
Requests that need a worker commit a task row and publish a Celery message
*afterwards*. The workers acknowledge late and a message of a lost worker is
delivered again (`task_acks_late`, `task_reject_on_worker_lost`), so that every
task runs at least once, possibly twice, possibly beside a duplicate.

What is hard, and where:

* **A long external call between two transactions.** The worker reads the
  quote, commits, calls the AI provider without the lock, and comes back to
  rows that clients, reviewers and other workers have moved on. The same holds
  for the SMTP call, for the text extractor and for the supplier search.
* **At-least-once delivery.** Duplicate requests, Celery retries and
  redeliveries make two workers own the same work.
* **Commit, then publish.** The broker may refuse, or the process may die, in
  between.
* **Failure paths that write unconditionally**: a late failure may be written
  over another actor's success.
* **Two generations of use cases** over the same rows (the `analyze` and the
  `process` routes of quotes; two ways to send an RFQ), with different guards.

Properties that make each component correct:

* *Quotes*: one extraction at a time is under review; an approval is final and
  stands on the extraction that was reviewed; a completed run is history and is
  never changed; one document is analysed once unless a person asks again; an
  analysis that starts ends.
* *RFQs*: what is sent is the version that was approved; an approved version is
  accepted by the mail provider at most once as long as its answers are
  definite; no message leaves for an RFQ that was cancelled before the claim;
  an RFQ says `sent` exactly when one message of it does.
* *Documents*: one worker claims a document; one run per processing key; a
  document reaches the AI only with pages and a quality decision of its own run.
* *Catalog, suppliers*: a run writes its products once; a snapshot contains
  only approved products; a merge leaves no row pointing to a merged supplier.
* *Tender*: its status is where its artifacts brought it or a person put it,
  whatever stale copies of the row are written back.
* *Comparison, recommendation*: equal inputs give the same stored result; only
  approved quotes are compared; an ineligible supplier is never recommended, and
  none that another one beats in everything.
* *Rules*: no text, amount or conflict is lost between the extractors, the unit
  tables and the evaluations; a company gets one row.
* *Schema*: no row keeps a database from being upgraded, what a status says of a
  row stays true through upgrades and downgrades, and the last schema has the
  tables and admits the statuses that the application uses.

## 2. The project

| Module | Models | Composes or promises |
|---|---|---|
| `HumanGate` | what a comparison may rely on of a quote | implemented by `QuoteAnalysis` |
| `QuoteAnalysis` (section 3) | one quote, its tasks and workers | |
| `SendOnce` | what a supplier may rely on of an RFQ | implemented by `RfqDelivery` |
| `RfqDelivery` (4) | one RFQ, both senders, the mail server | |
| `DocumentPipeline` (5) | one document, its publications and workers | |
| `CatalogExtraction` (6) | the catalog of a tender: runs, products, review, snapshots | |
| `SupplierDiscovery` (7) | the suppliers of a tender: staged runs and reviewers | |
| `TenderWorkflow` (8) | one tender across all of these | their outcomes are its outside steps |
| `ComparisonRules`, `QuoteRules`, `DocumentRules`, `SupplierRules`, `Missing` (9) | the deterministic services, as operators | put together by `Decisions` |
| `Decisions` (9) | how the inputs of the rules grow | |
| `SchemaTables`, `SchemaHistory` (10) | schemas and migrations, and the rows under them | |

`MC...` modules give each of them the constants of a small instance, `...Proofs`
modules (eight) hold its theorems. The order in which they were written follows
the harm an error does: what is approved and sent, then what is read, found and
compared, then the rules, then the schema. What a next step would add is at the
end of section 14.

## 3. `QuoteAnalysis`: the life of one quote

### State

| Variable | Code |
|---|---|
| `quote` | the `quotes` row: `status`, `approved_extraction_run_id` |
| `documents` | `processing_status` of the `quote_documents` rows, oldest first |
| `runs` | the `quote_extraction_runs` rows by `run_number`: document, status, correlation id (`task`), and what the item rows of the run look like (`items`, `resolved`, `approvedSource`) |
| `task` | the `quote_task_records` rows |
| `message` | where the Celery message of a task is, its retry count, and the run its worker works on |
| `uploading` | the upload request has not finished its second transaction |
| `crashes` | bound on worker deaths |

The items of one run are written by one transaction and are superseded
together, so a run carries one flag instead of a set of rows. `resolved` says
whether every item is matched, quantified, priced and has a currency, which is
all that approval looks at.

### Actions

One action is one transaction under the quote's row lock, or one step of the
broker. `AnalyzeQuote.execute` is four of them: `ReuseCompletedRun`,
`RefuseAnalysis` or `StartAnalysis` (first transaction), `PersistAnalysis`
(second), `AnalysisRaises` (anything in between raises, the second transaction
included) and `RecordFailure` (third). `RestartForRetry` is the prologue of a
retried Celery task, which commits on its own before `execute` runs.
`WorkerCrash` puts the message back with the same retry count, from any place
at the worker. `Publish`, `PublishFails` and `RequestDies` follow the commit of
every request; if only the answer of the broker was lost (`LostAnswers`), a
publication fails and its message is delivered all the same. Review (`EditItem`, `ApproveQuote`, `RejectQuote`) and the
comparator (`IncludeInComparison`) may happen at any time.

`Transitions` is `_QUOTE_TRANSITIONS` as it is, without entries for the states
of the explicit analysis: the code raises `KeyError` there, the model has no
step.

### Abstract specification

`HumanGate` is what a comparison may rely on: extractions are presented one at
a time and each at most once; a person approves the one presented; an approved
one stays. `ImplementsGate` maps the rows to it: the phase is the status, the
extraction in force is the run whose items are current, the ones presented are
the completed runs.

### Properties and the hazards they answer

* `OneCurrentExtraction`: review never mixes two extractions, although two
  workers may extract at once.
* `ApprovalStandsOnItsRun`, and the theorem `ApprovalsAreFinal`: late workers, their failures and
  redelivered messages leave an approval and its items alone.
* `WorkersOwnRuns`: between its transactions a worker has a run that nobody else
  completes, fails or takes over.
* `SucceededTasksHaveRuns`, and the theorem `HistoryIsKept`: history is not
  rewritten by a late failure.
* `OneCompletedRunPerRequest`: a request, even an explicit one, is answered by one
  analysis unless a worker dies.
* `OneCompletedRunPerDocument`: without an explicit reanalysis the document of a
  quote is not analysed twice, whatever is duplicated, retried or redelivered.
  It is stated for quotes that get one document; section 12 says what holds of
  more.
* `AnalyzingIsAttended`, `AnalysisEnds`: a quote is not stranded in `analyzing`,
  a state that no request can leave.

## 4. `RfqDelivery`: the life of one RFQ

### State

| Variable | Code |
|---|---|
| `rfq` | the `rfq_requests` row: whether it has a contact, `status`, `version`, the version its `send_idempotency_key` was made of, and how `to_recipients` compares with the reviewed contact |
| `emails` | the `email_messages` rows by `attempt_number` |
| `task` | the `rfq_task_records` rows (the legacy send makes none) |
| `request` | what the send or retry request of a task still has to publish |
| `broker` | the messages of the queue `rfq-delivery` that are not acknowledged; a message is a task and the number of Celery retries behind it |
| `worker` | per worker: the step it is at, its message, its attempt, the error it saw |
| `checks` | which of the preconditions that `validate_rfq_send` reads in other tables hold |
| `accepted` | ghost: the versions the mail server took, in order |
| `crashes` | bound on process deaths |

An RFQ with a contact is sent by `QueueRfq`, `RetryFailedRfq` and `SendRfq`, a
legacy one by `QueueRfqSend` and `DeliverRfq`; `rfq.contact` never changes and
selects the guards. The idempotency key is a hash of id, version and
recipients; recipients only change together with the version, so the version
stands for it.

### Actions

One action is one transaction under the row lock of the RFQ, one step of the
broker, or the answer of the mail server. Both senders are the same three
steps: the transaction that claims (`StartSending`, or `FindSent` and
`LeaveAlone` when there is nothing to do), `MailServerAnswers` while no lock is
held, and the transaction that records (`RecordSent`, `RecordFailure`).
`PublishRetry` is Celery's autoretry, `Acknowledge` comes last, and
`WorkerDies` may come at any of these points and leaves the message in the
queue. `Publish`, `PublishRaises`, `QueueUnavailable` and `RequestDies`
follow the commit of a request; publishing may raise although the broker has the
message, and the except branch that then runs finds an RFQ that may have been
sent by now. Reviewers and clients (`UpdateRfq`, `UpdateRfqWorkflow`,
`SubmitRfqForReview`, `RejectRfq`, `ApproveRfq`, `CancelRfq`, the send and retry
requests) may act at any time, the legacy edit also on an RFQ with a contact, as
the routes allow.

`Faults` says which of the faults an instance has, so that each property is
checked with all of those it withstands and no more.

### Abstract specification

`SendOnce` is what a supplier may rely on: a request is revised until a person
approves one version; that version is received at most once and no other ever
is; nothing is received after a withdrawal. `ImplementsSendOnce` maps `accepted`
to what was received; claims, attempts and failures are invisible.

### Properties and the hazards they answer

* `ClaimsAreExclusive`: two workers never talk to the mail server for one RFQ,
  whatever redeliveries and retries bring them.
* `StatusMatchesAttempts`: two rows written by five use cases agree, also when
  a publication failure is recorded after the message was delivered.
* `ApprovedContentIsSent`: what is handed to the mail server was approved, and
  goes to the reviewed contact although the legacy edit can change the
  recipients of an RFQ that has one.
* `AmbiguousIsNotResent`, and the theorem `CancellationIsFinal`: messages that were
  on their way send nothing after an ambiguous attempt or a cancellation.
* The theorem `SuccessIsTrue`: a duplicate that finds an attempt under way does
  not report success.
* `DeliveryEnds`: a queued or claimed delivery ends.

## 5. `DocumentPipeline`: the processing of one document

### State

| Variable | Code |
|---|---|
| `doc` | `processing_status` of the `tender_documents` row |
| `run` | status of the extraction run of the current processing key |
| `quality` | the decision of the `document_qualities` row of that run |
| `publisher` | what the upload or a periodic scan still has to do: mark the document as queued, publish |
| `broker` | the messages of `document-processing` that are not acknowledged, named after who published them |
| `worker` | per worker: the transaction of `start_pipeline` it is at, its message, and the rows that transaction has read |
| `deletion` | whether a DELETE request has read the document and not yet written it |
| `archived` | whether the document's tender is archived |
| `crashes` | worker deaths |

The processing key is a hash of the file and of the configuration of the
extractor. The file of a document never changes; the configuration is taken to
be fixed, so that a document has one run. Which of the two decisions an
evaluation reaches is nondeterministic.

### Actions

Only the claim (`Claim`, `Skip`) locks the row. Every other transaction is two
steps: `Reads` takes the rows into `worker[w].seen`, and the step of the stage
(`StartExtraction`, `StoreText`, `FailRun`, `EvaluateQuality`, `Finalize`,
`FailDocument`) decides on what was read and writes; `RowsFor` says what a stage
uses of the rows. Saving an entity loads its
row again and writes every column that differs, so a write overwrites what was
committed in between; where the schema has a unique key (one run per key, one
page per number, one evaluation per run) an insert raises instead. `Extract` is
outside of any transaction. A deletion and the scan have the same two halves
(`DeleteReads`, `DeleteWrites`; `ScanReads`, `ScanMarks`). Any error of a stage
ends in `FailDocument`, as in the task.

`get_by_id` joins the tender, so that after `Archive` a transaction does not find
the document, which all of them treat as they treat a deleted one (`Visible`).
Only a stale `UpdateTender` takes the mark away again, a step that
`TenderWorkflow` has and this module does not.

A document starts as the upload leaves it, `queued` with the publication still
to be done, or as `uploaded`, as a row older than the pipeline is.
`QueueDocumentProcessing` and the tasks of single stages are left out, as
nothing in the application calls the former or publishes the latter.

### Properties and the hazards they answer

* `ProcessingIsAttended`: with claims, failures, scans and deletions overwriting
  each other, a document in `processing` or `text_extracted` still has a living
  worker that is going to write it. A worker that dies, or no longer finds the
  document because its tender was archived, leaves it where it is.
* `StatusMatchesEvaluation`: workers that share one run never give the document
  a status other than that of the evaluation, nor one without an extraction.
* `ProcessingEnds`: lost publications are repaired, and every claim ends, while no
  worker dies and the tender stays open.

## 6. `CatalogExtraction`: the catalog of one tender

### State

| Variable | Code |
|---|---|
| `ready` | whether a document is still `ready_for_ai` |
| `run` | status of the `ai_extraction_runs` row of a document |
| `products` | the `catalog_products` rows by document and item: the status, and the other columns a review may change (`text`, a function of `Fields`) |
| `snapshots` | the `catalog_snapshots` rows |
| `request` | what a call of `RequestTenderCatalogExtraction` has planned, and what it has yet to publish |
| `broker`, `worker` | the messages of `ai-extraction` and what each worker is doing |
| `review` | what a review or an approval of the catalog has read: the first copy of the product (`seen`), then what is to be stored (`wanted`) and the row as fetched for that (`found`) |
| `vouched` | history: what reviewers approved, with the values of their copies |
| `overtaken`, `torn` | history: the reviews whose row another one wrote after they fetched it, and what the UPDATEs of such reviews left |
| `answers`, `refused` | history: the answers that left products, the documents whose publication or last try failed |
| `reviews`, `crashes` | calls of `UpdateCatalogProduct` and worker deaths so far |

Prompt, model and schema are fixed, so that a document has one run.

### Actions

A request reads the documents (`RequestReads`) and the runs one after the other
(`RequestReadsRun`), commits what it planned
(`RequestCommits`; a run that somebody created in between violates the key and
rolls all of it back) and publishes one document after the other without any
handler (`Publish`, `PublishRaises`). The three transactions of a worker lock
the row of the run and are one step each: `Start`, `Store`, `Fail`. `MissingKey`
raises before the run is opened, `PromptMissing` after it. `Retry`,
`Acknowledge` and `WorkerDies` are Celery's.

Reviews lock nothing, and have three steps. `ReviewReads` reads the product;
`get_product` turns the row into an entity and the session forgets the row (its
identity map is weak). `Edit` or `Decide` changes the entity, and
`update_product` fetches the row again (`catalog_repository.py:85`), whatever it has
become: `Prepares`. `Updates` is the flush and the commit: every column is
assigned, but the UPDATE names those that differ from the row just fetched, and
the others keep what a third transaction may have stored since (`Flushed`,
`Column`). There is no version column and no lock. `ReviewRefused` is a product
read in a state that does not allow the action. The approval of the catalog reads products, then the latest version, then inserts
(`CatalogReads`, `VersionReads`, `SnapshotCommits`).

### Properties and the hazards they answer

* `OneAnswerPerRun`: two answers to one run, in parallel or after a restart, do
  not both become products.
* `OpenRunsAreAttended`: an open run has somebody who is going to work on it; the
  exceptions are a publication that was refused, a key that was missing to the
  end, a missing prompt, and a document that is no longer ready.
* `ApprovedWasRead`: an approved product, and an entry of a snapshot, was approved
  by somebody, and shows what a reviewer had read when approving it, whatever
  edits, approvals and rejections overlapped. It is the second read that makes
  this so: an approval that comes with an old copy finds the columns that were
  edited since to differ, and writes the values of the copy back. An approval that
  compared with its first copy instead (the mutant `DecideUnfetched`) would leave
  the status of one review with the text of another.

  The property has an exception, because the code does: a row that another review
  wrote between the second read and the UPDATE (`torn`). TLC reaches the state:
  r1 reads the pending product and has its edit fetched and ready; r2 reads it,
  approves its copy and fetches the same row; r1's UPDATE sets the text; r2's
  UPDATE names the status only. The product is approved with a text its reviewer
  has not seen, and the next snapshot takes it over. Nothing more is lost in this
  window: a torn row still is of a product that somebody approved.

## 7. `SupplierDiscovery`: the suppliers of one tender

### State

| Variable | Code |
|---|---|
| `run` | the `supplier_discovery_runs` rows by refresh sequence: status, stage, raw candidates, and those that have a supplier |
| `request`, `broker`, `worker` | as in section 6; a worker carries what its transaction has read |
| `master`, `item`, `match` | the `suppliers`, `tender_suppliers` and `product_supplier_matches` rows |
| `review` | what a reviewer's transaction has read |
| `decided`, `refused` | history: the decisions of reviewers, and the runs whose publication failed |
| `reviews`, `faults` | bounds |

### Actions

Each stage of a run checks the stage under the lock of the run. Stages that
touch suppliers are two steps (`OpenDeduplication` and `Deduplicate`,
`OpenContacts` and `FindContacts`, `OpenMatching` and `MatchSuppliers`,
`OpenCompletion` and `Complete`), because suppliers are read and written without
a lock; a stage that was done already is skipped (`SkipDeduplication` and so
on), which is what makes a redelivered run resume. `SearchFails`,
`DatabaseFails` and `WorkerDies` may come at each of them; `Fail` and `Retry`
follow. Reviewers approve, reject, edit, merge, add and confirm
(`ItemReads`/`Decide`/`Edit`/`Confirm`, `MergeReads`/`Merge`,
`ManualReads`/`CreateManual`), from what they have read.

### Properties and the hazards they answer

* `OpenRunsAreAttended`: deaths, retries and redeliveries leave no open run to
  nobody, unless the queue refused it.
* `CompletedIsProcessed`: a completed run has a supplier for each of its
  candidates, and has offered it for review.
* `DecisionsWereMade`: nothing is approved, rejected, merged or confirmed by a
  stage that writes back what it has read.

`OpenRunsAreAttended` does not withstand the fault `"overlap"`, a message that is
delivered again while a worker still holds it (visibility timeout): the first
worker fails the run and is about to acknowledge, the second one opens the run
again and dies, and the acknowledgement takes the message away. The run and the theorem leave that fault out.

## 8. `TenderWorkflow`: one tender across the components

### State

`tender` is the row; `documents`, `snapshots`, `item`, `rfq`, `quote`,
`comparisons`, `legacy` and `recommendations` are the artifacts, each reduced to
what the calls read of it; `call` is what each call of the API in progress has
read; `moved` (the statuses that users chose) and `updates` are history.

### Actions

No call locks the tender. A call is its reads and its commit: `ChangeReads` with
`UpdateTender` or `ArchiveTender`, `DocumentReads`/`UploadDocument`,
`GenerateReads`/`GenerateRfqs`, `SynchronizeReads`/`Synchronize`,
`UploadReads`/`UploadQuote`/`MarkReady`, `CompareReads`/`Compare`,
`LegacyReads`/`LegacyCompare`, `RecommendReads`/`Recommend`. The commit writes the
row as it was read and changed, over what others have written; where two calls
insert the same key, the second one raises or answers with the stored row, as
its code does. `Outside` takes the outcomes of the other modules: documents
become ready, the catalog or a supplier is approved, an RFQ is sent, a quote is
analysed and approved. The lost updates this allows are real: `StatusIsEarned` is
what survives them, and `CancelledIsFinal` is what does not (section 13).

### Properties and the hazards they answer

* `OneResultPerKey`: the race of two equal requests between lookup and insert.
* `ResultsAreGrounded`: what was read before the insert still holds after it.
* `StatusIsEarned`: a stale row that is written back never moves the tender to
  where neither a person nor its artifacts have brought it.

## 9. The rules: `ComparisonRules`, `QuoteRules`, `DocumentRules`, `SupplierRules`

These modules are operators without state, one per method of the services.
Numbers are exact integers: ratios in units of `1/Scale`, quantities in
thousandths, scores in units that make weights times ratios whole. Names are
sequences of words, and how alike two names are (`difflib`) is a constant.

`Decisions` lets their inputs grow step by step, so that properties can speak of
one more line, specification, page or candidate as well as of every small input:
`AddLine`, `AddProduct`, `AddSpecification`, `Normalize`, `AddText`, and the two
stages and the merge that create and change suppliers (`Suggest`,
`StoreContacts`, `MergeInto`).

* `RecommendationIsSound`: who is recommended is complete, is beaten by nobody
  eligible in everything, and the legacy comparator never prefers the worse of
  two full quotes either.
* `NamedTwiceIsAsked`: an item that two products are named like is a question.
* `OneSupplierPerDomain`: no sum of similarities hides the supplier that has the
  same domain.
* `ConflictsStay`: what contradicts the request is not outweighed.
* `MeasuresAgree`: a measure that is normalized once or again is the same amount,
  and the same amount in another word for its unit is a match, through all three
  tables of units.
* `TextCounts`: a second extractor loses no text, and more text never makes the
  decision on the document worse.

`InputsAssumption` says which lines, weights and companies the application can
store, `CatalogAssumption` that products have identifiers and names finitely many
words, `MeasuresAssumption` that what may be converted is divided exactly,
`TextsAssumption` that lengths and areas are numbers, `RulesAssumption` (in
`ComparisonRules`) that a comparison has finitely many suppliers and products, and
some product; TLC evaluates them on the instance.

The legacy comparator reads the delivery days of the item only, and not those of
the quote: `LegacyPrefersBetter` therefore compares suppliers whose items all say
when they are delivered. An item that says nothing is scored halfway between
none and the best, although its quote may name two days or two hundred.

## 10. `SchemaTables` and `SchemaHistory`: the database through its migrations

`SchemaTables` lists, per migration, the tables with the statuses their check
admits, the checks it replaces and the unique keys it adds or drops; then what
the SQLAlchemy models declare and what the enumerations of the domain write.
In `SchemaHistory` the schema of a revision is what the migrations up to it have
said last: a table is there if one of them creates it, its check is that of
the last one that created the table or replaced the check (`LastOn`), a key holds
if it was added and not dropped since. `revision` counts the migrations applied, `rows` are rows by primary key.
`Upgrade` and `Downgrade` do to the rows what the migration does and happen only
if the rows are admitted by the schema they lead to (a migration is one
transaction); `Write` inserts a row as the application of the revision writes
it.

* `UpgradeIsNeverRefused`: whatever earlier versions, upgrades and downgrades
  left, the next upgrade is admitted.
* `SentHoldsItsKey`: of the attempts that share a send key, the one that was sent
  keeps it when the key becomes unique.
* `StatusesStayTrue`: a document with text has its extraction, a quote its
  document, a completed run its answer; a deleted document stays out.
* `LatestFitsTheCode`: the migrated schema has the tables the models declare, its
  checks admit the statuses that they declare and the application writes (they
  may admit more), and it holds nothing the application cannot read. Unique keys
  are not compared.

## 11. Runs

The `MC` modules give tasks, publishers, calls and workers as model values, the
symmetry sets, and the constants that are functions.

| Run | Instance | Shows |
|---|---|---|
| `quote_all` | 2 tasks of any route, 1 retry, 2 documents, 3 runs, 1 worker death, 2 routes that may lose an answer of the broker; 2.1 M states | type invariant, the safety invariants, `ImplementsGate` |
| `quote_live` | 2 tasks of the routes `analyze` and `process`, which may both lose an answer of the broker, 1 retry, 6 runs, 1 death, fair; 0.5 M states | `OneCompletedRunPerDocument`, `AnalysisEnds` |
| `rfq_all` | 2 tasks, 2 workers, every fault but `late_answer`, 1 retry, 3 versions, 1 death; 0.4 M states | type invariant, three safety invariants, an action property, `ImplementsSendOnce` |
| `rfq_live` | 2 tasks, 2 workers, refused publications and redeliveries, fair, no death; 0.1 M states | `DeliveryEnds` |
| `docs_all` | 2 publishers, 2 workers, every fault, 1 death or an archived tender, fair; 1.0 M states | type invariant, `ProcessingIsAttended`, `StatusMatchesEvaluation`, `ProcessingEnds` |
| `catalog_all` | 1 document and item, 2 columns with 2 values, 2 requests, 2 workers, 2 reviewers with 2 reviews, every fault, 1 retry, 1 death or deletion; 1.1 M states | `OneAnswerPerRun`, `OpenRunsAreAttended`, `ApprovedWasRead` |
| `supplier_all` | 1 candidate, 2 suppliers, 2 runs, 2 workers, 2 reviews, 2 faults, 1 retry; 1.3 M states | `OpenRunsAreAttended`, `CompletedIsProcessed`, `DecisionsWereMade` |
| `tender_all` | 2 suppliers, 2 overlapping calls, 1 snapshot, 1 update; 2.5 M states | `OneResultPerKey`, `ResultsAreGrounded`, `StatusIsEarned` |
| `rules_all` | 2 suppliers, 2 products, 4 lines; 4 products and items; 3 specifications; 2 pages; 3 rows of suppliers; 0.12 M states | the six properties of section 9 |
| `migrations_all` | up to 3 rows at a time of 10 tables, 2 keys; 0.9 M states | the four properties of section 10 |
| `doc_late_answer`, `doc_cancelled` | 1 or 2 tasks and 1 worker; 2 calls | statements of the documentation that the code does not keep (section 13) |

Why the bounds of the quote runs are enough: two tasks are the least for which
workers overlap, and the actors do not count each other; three runs let a task
fail, be retried and still meet a run of the other task; one death is enough to put a message
back after each of the worker's steps; two documents let a run be older than
the latest document. In `quote_live` six runs are more than two tasks with one
retry and one death can create, so that the bound never stops a worker. The
answers that may be lost are those of the two forced routes in `quote_all` and of
the other two in `quote_live`; the theorems hold for every choice.
`CHECK_DEADLOCK FALSE` is set because a quote legitimately comes to rest: an
approved quote that was compared accepts nothing more.

For the RFQ, two tasks are a request and its retry or duplicate, and two workers
are enough for a claim to be contested; one Celery retry per request gives up
to four messages; three versions let an edit of content and attachments come
before the approval. `rfq_live` has no process death, no refused retry
publication and no failing check at the claim: with any of them the code
strands the RFQ in `sending` (as `docs/rfq.md:160` says) or in `queued`. An RFQ comes
to rest when it is answered or cancelled, or when the bounded requests are used
up, hence `CHECK_DEADLOCK FALSE`.

For the document, two publishers are an upload and a scan, or two scans that
read before either writes; they give the two messages that two workers can hold
at once, and one message is also enough for two workers when it is delivered
twice. A publisher may scan again once its message is acknowledged, so the
number of messages over time is not bounded. `MaxDisruptions` bounds deaths and the
archiving of the tender together, since each of them ends what the two
properties of attendance promise. `ProcessingEnds` is
stated for executions without either, because the document of a worker that dies
after its claim, or no longer finds it, stays in `processing`: a redelivered
message is skipped, and the scan looks for `uploaded` and `queued` documents
only. A deleted document without messages is
at rest, hence `CHECK_DEADLOCK FALSE`.

For the catalog, two requests can plan the same run and publish it twice, which
two workers then hold at once; a third actor of a kind does what one of the two
does. A death and a deletion are bounded together (`MaxDisruptions`), since the
deletion ends what is asked of the run. Two values tell a stale copy from a new
one, and with two columns an UPDATE can name one and not the other, so that a row
can be a mixture. Two reviews are the least that overlap, and enough for the row
that nobody read and its snapshot (17 steps); the theorem covers any number. For
the suppliers, two runs
contend for the same supplier while reviewers decide on it; the second row is
what a merge or a manual supplier needs, and two faults are one for each run or
a failure during the recovery from the first. For the tender, two calls are
enough for a stale row, as a write depends on one read; the second supplier lets
a comparison have a new key. Runs, requests, calls and reviews are used up in
the end, hence `CHECK_DEADLOCK FALSE` in these three.

For the rules the inputs are chosen so that every branch occurs: equal lines,
lines of another quantity, currency, compliance or delivery, and unidentified
ones; weights that ignore a criterion; names that contain each other; amounts at
and beside each conversion; texts at and beside each threshold; companies that
share a domain with another name, an address, or only a similar name. Inputs end
where the bounds are reached.

For the schema, three rows allow three attempts of an e-mail with one key, of
which the last was sent: with two, the first and the sent one can only be the
same or adjacent. The tables followed are those whose statuses or keys some
migration changes. Nothing ever blocks: an empty table can always be written or
a migration undone.

Fairness: `FairSpec` of `QuoteAnalysis` asks weak fairness of `Work(t)` only: a worker that holds
a message goes on, and the broker delivers what it holds. That is what late
acknowledgement and `task_reject_on_worker_lost` provide. Nothing is asked of
clients, reviewers, the upload request, or the failure of the provider.
`FairSpec` of `RfqDelivery` asks the same of each worker, and of the request
thread between its commit and its publication: a process that lives goes on.
`FairSpec` of `DocumentPipeline` asks it of workers and publishers, of the scan
because Celery beat repeats it, and strong fairness of `Publish`: a broker that
is asked again and again does not refuse every time. Nothing is asked of
deletions or of the extractors. The other modules state safety only: a run whose
publication is refused stays open, so that what would have to be fair is a
person who asks again.

Symmetry is used only in runs without temporal properties of the liveness kind.

## 12. Proofs

### `QuoteAnalysis`

`QuoteAnalysisProofs` proves, for any set of tasks, any routes and any bounds
(`RoutesAssumption`, `BoundsAssumption`):

* `TypeCorrect`, `WorkersAreIsolated`, `ReviewsAreWhole`, `ApprovalsStand`: the
  invariants `TypeOK`, `WorkersOwnRuns`, `OneCurrentExtraction`,
  `ApprovalStandsOnItsRun`;
* `ApprovalsAreFinal`, `HistoryIsKept`: the action properties;
* `GateIsImplemented`: `QuoteAnalysis` implements `HumanGate`;
* `SuccessIsShown`, `AnalysesAreAttended`, `RequestsCompleteOnce`: the invariants
  `SucceededTasksHaveRuns`, `AnalyzingIsAttended`, `OneCompletedRunPerRequest`;
* `LatestDocumentReadOnce`: without an explicit reanalysis at most one completed
  run has read the latest document;
* `DocumentReadOnce`: `OneCompletedRunPerDocument`, if no route forces a
  reanalysis and the quote gets one document (`MaxDocuments = 1`).

The argument: `Inv` is the conjunction of the four invariants. None of the last
three is inductive alone. A worker persists or fails the run its message names;
that this run is *still running*, and its own, is `WorkersOwnRuns`, and it is
what keeps a late worker off the completed run an approval stands on. That
items belong to completed runs only (`OneCurrentExtraction`) is what makes a run
that starts, fails or is persisted unable to disturb the current items. One
lemma per action proves that a step keeps `Inv`; three lemmas say which actions
move the review (`ReviewMovesAlone`), which leave the runs alone
(`RunsStandStill`) and that a persisted extraction was never presented
(`ExtractionIsNew`); the action properties and the refinement follow from these
by cases on the phase.

That a quote in `analyzing` has a message that will bring a worker is not
inductive: the worker that comes might answer from a run that is there already,
and leave. `AttendanceInv` rules this out. `FreshInv`: while an unforced analysis
is under way the latest document has no run that could answer for it.
`AttendedInv` says who attends: until a worker dies one that is executing, after
a death a message that will execute again, under the conditions
`AnalyzingIsAttended` names. `LatestOnceInv` goes with them, because the analysis
that starts has found no completed run of the latest document, and while it is
persisted nobody else persists one of the same document. `RequestsCompleteOnce`
needs `SettledInv`: as long as no worker died, the message of a task that has
completed a run is acknowledged or on its way to be.

The hypothesis `MaxDocuments = 1` of `DocumentReadOnce` cannot be dropped. With
two documents TLC finds a document that is read twice, without a death or an
explicit reanalysis: two workers extract the first document, the second one is
added, one worker persists its run, the recorded failure of a third worker makes
the quote failed, its retry starts an analysis of the second document, and in
this analysis the other worker of the first document persists, too. What holds
for any number of documents is `LatestDocumentReadOnce`: the latest one is read
once.

Only model-checked: the liveness property `AnalysisEnds` (liveness under fairness
is beyond the prover).

### `RfqDelivery`

`RfqDeliveryProofs` proves, for any sets of tasks and workers, any faults and any
bounds (`BoundsAssumption`, `FaultsAssumption`, `NoMessageAssumption`):

* `TypeCorrect`, `OneWorkerSends`, `RowsAgree`, `OnlyApprovedContent`: the
  invariants of `rfq_all`;
* `SuccessIsTrue`: a task that succeeded belongs to an RFQ that was sent;
* `CancellationIsFinal`, `AmbiguityIsFinal`: the action properties;
* `PromiseIsKept`: if `"late_answer"` is not among the faults, `RfqDelivery`
  implements `SendOnce`.

The argument: `IInv` strengthens the type invariant by four facts. `KeyInv`: the key is
that of the version in force from the approval on. `AttemptInv`: there is at most
one attempt (the reused row of an RFQ with a contact; a legacy RFQ never gets a
second), and its status follows from that of the RFQ; in particular an ambiguous
attempt exists only in `failed` and `cancelled`. `ClaimInv`: a worker between its
transactions is the only one and the RFQ is `sending`; this is what a claim of
another worker, a cancellation, an edit and a late publication failure each
have to respect. `RetryInv` bounds the retries of a message. None of the
properties is inductive without them: that the rows agree after a failure is
recorded needs that the attempt recorded is the only one, and that needs the
key. One lemma per group of actions proves that a step keeps `IInv`.

The refinement adds `AcceptedInv`: what the mail server took is known from the
rows and the claim. A step is then either quiet (`Quiet`, `DecisionMoves`), an
edit, the start of a send, an answer or a record, with one lemma each.

Only model-checked: `DeliveryEnds`.

### `DocumentPipeline`

`DocumentPipelineProofs` proves, for any sets of publishers and workers, any
faults and any number of deaths (`NamesAssumption`, `FaultsAssumption`):

* `TypeCorrect`: `TypeOK`;
* `NoDocumentIsAbandoned`: `ProcessingIsAttended`;
* `ResultIsEvaluated`: `StatusMatchesEvaluation`.

The argument: that some worker is at a stage is not inductive, for the step by
which a worker returns may be the last one. `ResponsibleInv` says who is
responsible: while no worker died, there is for an unfinished document a worker
that is not finished with it, and if that worker has already read the rows, what
it read allows it to write a result. It passes from one worker to another only
when the other writes the document, and then the writer is the new one.
`EvaluationInv` says that a run and its evaluation never go away once they are
there, and that what a worker holds of them in memory is still true; so a
decision, however late it is written, is that of the row. One lemma per action
proves that a step keeps both.

Only model-checked: `ProcessingEnds`.

### `CatalogExtraction`

`CatalogExtractionProofs` proves, for any documents, items, columns, values, requests,
workers, reviewers, faults and bounds (`NamesAssumption`,
`BoundsAssumption`): `TypeCorrect`; `OneAnswer` (`OneAnswerPerRun`);
`OpenRunsHaveSomebody` (`OpenRunsAreAttended`); `ApprovalsWereRead`
(`ApprovedWasRead`).

The argument: an answer counts only if it leaves products, and then they stay
(`AnswersInv`), which is what `Store` looks at. Somebody attends a run is not
inductive: a worker that acknowledges or skips might have been the last. The
invariant says that a worker holds its message alone (`HoldingInv`) and that a
request has one message per document at a time (`MessagesInv`), so that what a
worker or a broker lets go of is known. Versions are counted, for which snapshots
have to be finite (`SnapshotsInv`).

For the reviews (`ReviewInv`): a copy that is already decided was vouched for; and
the row that a review fetched for its update still is the stored one, unless the
review was overtaken. In the first case every column that the UPDATE leaves out
is stored as the review wants it, so that the row becomes what the reviewer had
read (`WhatIsFlushed`), and if that is an approval, it is vouched for in the same
step. In the second case the outcome is in `torn`; it can be approved only if the
review approves, or if the row was approved and the UPDATE leaves the status
out, and either way the product was approved by somebody.

### `SupplierDiscovery`

`SupplierDiscoveryProofs` proves, for any candidates, rows, actors and bounds:
`TypeCorrect`; `Decisions` (`DecisionsWereMade`); and, if `"overlap"` is not among
the faults, `Attendance` (`OpenRunsAreAttended`) and `Completion`
(`CompletedIsProcessed`).

The argument for the decisions: what a worker or a reviewer has read of a
supplier is old, but if it shows a decision then the decision was made
(`GoodWorker`, `GoodReview`); so whatever is written back is one, too. For the
attendance: a message is held by one worker (`HoldingInv`), a run has one message
or one publication to come while it is open (`TokenInv`), and a worker that is about
to acknowledge leaves a run that is closed or was handed on (`ClosingInv`).

For the completion: the stage of a run says what was stored of it (`GoodRow`), and
what its worker is about to do says how far the stage can be (`GoodStage`;
together `ProgressInv`). A supplier that waits for its review belongs to a run
that has not completed and whose worker has not read it too late to offer it
(`OfferedInv`); when one run sets a supplier back that another has offered, it
takes over that duty. `"overlap"` is a message that is delivered again while a
worker still holds it, after the visibility timeout; two workers of one run then
overwrite its stage, and neither invariant holds. TLC's instance of these
properties leaves that fault out as well.

### `TenderWorkflow`

`TenderWorkflowProofs` proves, for any suppliers, calls, weights and bounds:
`TypeCorrect`; `OneResult` (`OneResultPerKey`); `Rests` (`ResultsAreGrounded`);
`StatusEarned` (`StatusIsEarned`).

The argument: what a call has read is old, but what made it true does not go away:
artifacts are never removed, an approved quote stays approved, a status that a
user chose stays chosen. `Good` says of each call that the status it holds is
earned and the key it holds is grounded; so the row it writes back is, too.

### `Decisions`

`DecisionsProofs` proves, for any suppliers, products, lines, weights,
specifications, catalogs, measures, texts and companies (`InputsAssumption`,
`CatalogAssumption`, `MeasuresAssumption`, `TextsAssumption`, `RulesAssumption`):

* `RecommendationsAreSound`: `RecommendationIsSound`, with `RecommendedAreComplete`
  as the part that speaks of completeness;
* `NamesakesAreAsked`: `NamedTwiceIsAsked`;
* `DomainsAreApart`: `OneSupplierPerDomain`;
* `ConflictsAreFinal`: `ConflictsStay`;
* `MeasuresAreKept`: `MeasuresAgree`;
* `TextIsCounted`: `TextCounts`.

The rules are sums, maxima and minima over finite sets, which the provers cannot
unfold, and a general induction over sets is out of reach (the induction theorems
of the library take an operator as a parameter). What is needed of it is proved by
the least counterexample instead: a set of naturals that is not empty has a least
element (`LeastNatural`), so that a bounded set of integers has a greatest
(`GreatestExists`), and a sum over a finite set exists, is unique, loses what is
taken out of the set, and is monotone (`SumExists`, `SumPeels`, `SumsCompare`).

From there: an offer that is no worse in price, delivery and compliance has no
fewer points (`PointsCompare`), and rounding keeps that (`DivisionByMore`,
`RoundingIsMonotone`), so the score, a sum of weighted points (`ScoreIsASum`), is no
lower; who is chosen has the greatest score, and among equals the fixed order
decides (`ChosenIsTheBest`). `WinnerHolds` and `LegacyHolds` are the last two
parts of the property. For the completeness, what an eligible offer, a quoted
offer and a comparison that is ready say of the lines they were made from is one
lemma each. For the names, both products have the greatest score there
is, so that the best does not lead by the margin the matcher asks for
(`TwoNamesAreAQuestion`). For the
domains, `SuppliersInv` says that the rows that were not merged are apart, and each
of the three steps keeps them so: a domain alone reaches the score from which
contacts are stored with a supplier that is there (`StoredIsApart`).

The proof attempt of `LegacyHolds` found that an earlier statement of
`LegacyPrefersBetter` was false, for the reason given in section 9.

For the texts (any pages, `TextsAssumption`): the characters and the area of a
text are sums over its pages, more text on a page makes the first greater and
leaves the second (`TextGrows`), and every threshold of the decision is passed in
one direction only (`DecisionImproves`); of two texts the one that is kept has 100
characters or is the longer (`LongestIsKept`).

For the measures (any amounts that the conversions divide and any written units,
in the tables or not, `MeasuresAssumption`): a conversion leads to a unit of the
table that is worth as much more as the amount is divided by, and that is not
converted itself (`ConversionsFit`), so that a normalized measure is a measure
again, of the same worth (`NormalizedIsWorthAsMuch`). That the words of a common
unit meet in the last table is a fact about each of the six units
(`SynonymsOfPieza` to `SynonymsOfPaquete`, `SynonymsMeet`); `ud`, and a full stop,
are where it fails, and the property leaves them out. The division has to be
exact: 100050 thousandths of a centimetre are no whole number of thousandths of
a metre, which the code, with its decimal numbers, does not lose and the model,
with integers, would.

Nothing of this component is only model-checked.

### `SchemaHistory`

`SchemaHistoryProofs` proves, for any of the tables, any primary keys, send keys
and capacities (`RowsAssumption`):

* `UpgradesAreNeverRefused`: `UpgradeIsNeverRefused`;
* `SentMessagesHoldTheirKeys`: `SentHoldsItsKey`;
* `StatusesAreTrue`: `StatusesStayTrue`, with `DeletedDocumentsStayOut` for its
  second part alone;
* `LatestIsTheCodes`: `LatestFitsTheCode`.

The invariant `HistoryInv` is that the rows are `Sound` at their revision: typed;
admitted by its checks and keys (`Lawful`); every e-mail has the key it was sent
with or the digest made of it (`KeysAreTheirs`); whoever asks for the key of a sent
e-mail finds a sent one, at *every* revision (`SentHolds`); what a status needs is
there (`Whole`); and what was deleted is out (`Out`). `SentHolds` is stronger than
the property, which speaks only of the revisions where the key is unique: a
downgrade leaves these, and the next upgrade has to find it.

The argument has three parts. What each of the fifteen migrations says is a fact
of its own (the lemmas `...Says`), from which the tables, the keys and the last
check of every revision follow (`TablesOfRevision`, `KeysOfRevision`, `LastIs`,
`CheckStays`), and that a check that is replaced is replaced by a wider one, save
where the migration changes the rows first (`ChecksWiden`). What the migrations do
to rows is one lemma per statement (`SetStatusDoes`, `AddPartDoes`,
`ReconcileDoes`, `MigratedDoes`, `RevertedDoes`); that the tenth leaves each key
with one message needs the least of a set of attempts. One lemma per action then
proves that a step keeps the rows sound (`UpgradeIsSound`, `DowngradeIsSound`,
`WriteIsSound`).

Nothing of this component is only model-checked.

## 13. Where the code and its documents disagree

Two runs show such a disagreement:

* `doc_late_answer`: `smtplib` ends a session with QUIT when the `with` block is left
  and raises `SMTPResponseException` unless the answer is 221; a 421 there, after
  the message was accepted, counts as a transient failure, and the retry sends
  the RFQ again. (A connection lost at that point is counted as ambiguous, and
  is not retried.)
* `doc_cancelled`: a call that read the tender before it was cancelled writes its
  row back with the status it made of it; the table of states in
  `docs/iteration-3-tender-management.md:150` lets nothing follow `cancelled`.

Others follow from the models and from the code, and have no run:

* the reprocess request leaves the quote in `validating`, from where the forced
  analysis of the worker refuses to start (`docs/iteration-12-validation.md:152`);
* of two workers of one quote the slower one writes its failure over the other's
  success (`docs/adr/0005-quote-ai-analysis-contract.md:45`);
* the retry of an RFQ with a contact rewrites the attempt row instead of adding
  one (`docs/rfq.md:71` and `:177`, `rfq_workflow.py:611`);
* a legacy RFQ whose delivery failed is accepted by no send or retry request
  (`docs/rfq.md:98` and `:160`, `rfqs.py:522`);
* the scan reads without a lock and writes `queued` over a claim that was committed
  in between, so that two workers extract one document
  (`docs/iteration-5-text-extraction-pipeline.md:64`,
  `document_processing.py:94`);
* a quantity that is asked for and quoted in the same words need not match, as
  `docs/iteration-14-validation.md:30` has it: `ud`, `servicio`, `juego`, `gramo`,
  `mililitro` and units with a full stop are read differently by the three
  tables, and 1500 g that are asked for become 1.5 kg, which 1500 g that are quoted do
  not (`quotes/value_objects.py:126`, `catalog_normalizer.py:79`). `SynonymsMatch`
  is stated for the units the tables share;
* the model of catalog products (`db/models/catalog.py:81`) declares five statuses,
  while its migration and the enumeration have seven;
  `LatestFitsTheCode` asks only that what is declared is admitted;
* `docs/ai-extraction.md:162` says of products that there are no changes after
  `approved` or `rejected`. A review that read the product while it was pending writes all the
  same: a stale edit sets a decided product back to `pending_review`, and stale
  approvals and rejections replace each other. An edit that commits between the
  second SELECT and the UPDATE of an approval leaves an approved row with
  values nobody read (section 6);
* four migrations (`c9e5`, `e1a7`, `f2b8`, `a6d1`) narrow a status check when they
  are undone without changing the rows, `d0f6` restores a unique key over
  duplicates, and `c842` deletes a user who owns rows: such a downgrade is refused
  as soon as rows of the later version exist. The tests and the CI go up, down
  and up again on empty databases only (`docs/iteration-8-validation.md:13`,
  `docs/continuous-integration.md:9`).

More behaviours a reader should know, which no run is about:

* the prologue of a retry leaves a failed quote in `validating`, and so the retry
  of a reanalysis ends without calling the provider;
* a reanalysis whose worker dies after its commit is run again, and supersedes
  the items of the first run: `OneCompletedRunPerRequest` is stated for executions
  without deaths;
* a reanalysis whose worker dies before that strands the quote in `analyzing`,
  where no request is accepted: the redelivered task finds `analyzing` and
  `restart_analysis` refuses it. `AnalyzingIsAttended` says for which
  executions this cannot happen;
* a document that was superseded by another one can be read to completion twice
  without anybody asking for it (section 12, `DocumentReadOnce`);
* an edited legacy RFQ is a draft, and a draft without contact cannot be put to
  review;
* a document whose worker dies after the claim, or whose tender is archived
  while it is being processed, stays in `processing`, which no message, scan or
  request but a deletion leaves, and an archived tender hides it from that, too;
* a task of an analysis whose worker cannot build the AI service uses up its tries
  before the quote is opened (`tasks/quote_analysis.py:92`): its row stays `queued`;
* a catalog run whose prompt is missing at the worker stays `running`
  (`catalog.py:254` is outside of the `try`);
* a deletion and a stage of the pipeline overwrite each other: a document that
  was deleted while a worker held what it had read is back when the worker
  writes.

## 14. What is not modelled

* A database failure inside the failure transaction of a worker: it resembles a
  worker death.
* In `QuoteAnalysis` and `CatalogExtraction`, the second delivery of a message
  whose first worker is alive: the visibility timeout is 3600 s and the call of the
  provider ends within 600 s at most. Two workers of one run or quote come from
  two requests there. `RfqDelivery`, `DocumentPipeline` and `SupplierDiscovery` have
  it.
* What happens between two calls of a library: the publication of a Celery retry
  and the acknowledgement of the message it replaces are one step, a worker does
  not take a message before the failure of its publication is recorded in
  `QuoteAnalysis` (in `RfqDelivery` it may), and a restarted catalog run that is found
  `queued` again is not distinguished from one that is written so.
* The second SELECT of an update (section 6) in the other modules: all repositories
  fetch a row again before they write it, and write the columns that differ. Where
  one column of a row is modelled, an UPDATE that leaves it out gives the row
  that a write at the moment of the SELECT would have given.
* The version snapshots of RFQs, which nothing reads to decide (the legacy edit
  writes none).
* More than one document or processing key at a time, and the contents of pages
  and qualities, in `DocumentPipeline`; the settings that select the extractors
  change with a deployment only.
* User lookups, audit events, metrics and header amounts: they decide nothing.
* In `TenderWorkflow`, the deadline, the observations and the template in the key
  of an RFQ (`rfqs.py:200`): there is one request per supplier and snapshot.
* The mark `compared` that a legacy comparison puts on product rows
  (`quotes.py:1419`), in `TenderWorkflow` and in `CatalogExtraction`: a marked
  product is no longer approved, no transition leads back
  (`_PRODUCT_TRANSITIONS`), and another approval of the catalog then counts it as
  unresolved.
* `SubmitQuoteForReview` (does nothing outside the legacy `normalized` state)
  and `ProcessSupplierQuote` (no task calls it).
* The discovery v1 (`supplier_discovery.py`), which only tests call; the text
  heuristics of queries, match scores, addresses and names; `difflib` itself.
* Columns, indexes and foreign keys of the schema, and offline migrations.
* The HTTP layer, authentication, the adapters to AI, search, storage and SMTP
  beyond their outcomes, configuration, prompts, logging and the frontend: they
  keep no state that the models would not already range over. `PROJECT.json`
  lists every component with its status and the reason.

What would come next: liveness of catalog runs and discovery runs for executions
without refused publications; several documents in `DocumentPipeline`; an
abstract specification of a discovery run, which `CompletedIsProcessed` and
`OpenRunsAreAttended` together come close to.
