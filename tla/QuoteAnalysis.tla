--------------------------- MODULE QuoteAnalysis ---------------------------
(***************************************************************************)
(* The life of one supplier quote: reception, asynchronous AI analysis,    *)
(* human review.                                                           *)
(*                                                                         *)
(* API requests and Celery workers share the database rows of the quote.   *)
(* Every action is one database transaction, taken under the quote's row   *)
(* lock (get_quote(for_update=True)), or one step of the broker.  Between  *)
(* two transactions anything may happen: a worker reads the document and   *)
(* calls the AI provider without holding the lock.                         *)
(*                                                                         *)
(* A task is delivered at least once: it is acknowledged after it ran, and *)
(* the message of a worker that dies is delivered again.                   *)
(***************************************************************************)
EXTENDS Naturals, Sequences

CONSTANTS
  Tasks,        \* identities of QuoteTaskRecord rows, each with its message
  Routes,       \* the request kinds in use, a subset of AllRoutes
  MaxRetries,   \* settings.quote_processing_max_retries
  LostAnswers,   \* the routes that may lose the broker's answer to a publication
  KeyMayMiss,   \* whether some worker may run without settings.openai_api_key
  MaxDocuments, \* bound: documents attached to the quote
  MaxRuns,      \* bound: extraction runs of the quote
  MaxCrashes    \* bound: worker deaths

VARIABLES
  quote,        \* the quotes row: status, approved_extraction_run_id
  documents,    \* processing_status of each quote_documents row, oldest first
  runs,         \* the quote_extraction_runs rows, indexed by run_number
  task,         \* the quote_task_records rows
  message,      \* per task: where its Celery message is, and its retry count
  uploading,    \* the upload request has not finished its second transaction
  crashes       \* worker deaths so far

vars == <<quote, documents, runs, task, message, uploading, crashes>>

-----------------------------------------------------------------------------
(* Values *)

AllRoutes == {"analyze", "reanalyze", "process", "reprocess"}

QuoteStatus ==
  {"received", "validating", "ready_for_analysis", "analyzing", "analyzed",
   "extracting", "extracted", "normalized", "pending_review", "approved",
   "rejected", "included_in_comparison", "failed"}

DocumentStatus == {"stored", "processing", "processed", "failed"}

RunStatus == {"running", "completed", "failed"}

TaskStatus == {"none", "queued", "running", "succeeded", "failed", "retry_pending"}

\* The items of a run: not written, current (is_current), or superseded.
ItemStatus == {"none", "current", "superseded"}

\* The columns of a run the use cases decide on.  "task" is the correlation id
\* its audit events carry; "resolved" says that every item it wrote is matched,
\* quantified, priced and has a currency.
Run == [document : Nat \ {0}, task : Tasks, status : RunStatus, items : ItemStatus,
        resolved : BOOLEAN, approvedSource : BOOLEAN]

\* Where a task's message is.  "requested": its row is committed and nothing
\* is published yet; "queued": at the broker; "restarted": a worker took a
\* retry and ran the retry prologue; "extracting", "raising": between the
\* transactions of an execution; "retrying": the failure is recorded, the
\* retry not yet published; "returned": only the acknowledgement is missing;
\* "gone": no message is left.
Place == {"none", "requested", "queued", "restarted", "extracting",
          "raising", "retrying", "returned", "gone"}

NoRun == 0

ASSUME RoutesAssumption == Routes \subseteq AllRoutes /\ LostAnswers \subseteq AllRoutes
ASSUME BoundsAssumption ==
  /\ MaxRetries \in Nat
  /\ KeyMayMiss \in BOOLEAN
  /\ MaxDocuments \in Nat \ {0}
  /\ MaxRuns \in Nat
  /\ MaxCrashes \in Nat

Forced(route) == route \in {"reanalyze", "reprocess"}

-----------------------------------------------------------------------------
(* Domain rules *)

Approved == {"approved", "included_in_comparison"}

\* _QUOTE_TRANSITIONS.  The states of the explicit analysis contract have no
\* entry: a lookup from one of them raises KeyError, and nothing is changed.
Transitions ==
  [s \in {"received", "validating", "extracting", "extracted", "normalized",
          "pending_review", "approved", "rejected", "failed",
          "included_in_comparison"} |->
     CASE s = "received" -> {"validating", "rejected", "failed"}
       [] s = "validating" -> {"extracting", "failed"}
       [] s = "extracting" -> {"extracted", "failed"}
       [] s = "extracted" -> {"normalized", "failed"}
       [] s = "normalized" -> {"pending_review", "failed"}
       [] s = "pending_review" -> {"approved", "rejected", "validating"}
       [] s = "approved" -> {"included_in_comparison"}
       [] s = "rejected" -> {"validating"}
       [] s = "failed" -> {"validating", "rejected"}
       [] s = "included_in_comparison" -> {}]

\* Quote._transition accepts the target.
MayMove(status, target) ==
  \/ status = target
  \/ status \in DOMAIN Transitions /\ target \in Transitions[status]

\* Quote.restart_processing accepts the status (and sets "validating").
MayRestartProcessing(status) == status \in {"pending_review", "rejected", "failed"}

\* restart_analysis accepts the status (and sets "ready_for_analysis").
MayRestartAnalysis(status) ==
  status \in {"pending_review", "rejected", "failed", "analyzed"}

\* mark_ready_for_analysis accepts the status.
MayBecomeReady(status) ==
  status \in {"received", "validating", "ready_for_analysis"}

\* mark_analysis_failed: an approved quote only records the error.
AfterAnalysisFailure(status) == IF status \in Approved THEN status ELSE "failed"

\* Mutant of AfterStart: the status of the run is written to the document.
DocumentTakesRunStatus(status) ==
  IF status \in {"stored", "failed"} THEN "running" ELSE status

\* QuoteDocument.start_processing: a document in another state is left alone.
AfterStart(status) ==
  IF status \in {"stored", "failed"} THEN "processing" ELSE status

-----------------------------------------------------------------------------
(* What the use cases read *)

RunNumbers == 1..Len(runs)

\* list_items: the current items, all written by one run.
CurrentRuns == {r \in RunNumbers : runs[r].items = "current"}

\* A completed run that has its artifact and its items, which one transaction
\* writes together.
Usable(r) == runs[r].status = "completed" /\ runs[r].items # "none"

CompletedRuns == {r \in RunNumbers : runs[r].status = "completed"}

\* list_runs is ordered by run_number: completed[-1].
LatestCompleted == CHOOSE r \in CompletedRuns : \A s \in CompletedRuns : s <= r

\* get_completed_run_by_fingerprint: with one model, prompt and schema in use,
\* runs share a fingerprint when they read the same document.
ReusableFor(doc) == {r \in RunNumbers : Usable(r) /\ runs[r].document = doc}

-----------------------------------------------------------------------------
Init ==
  /\ quote = [status |-> "validating", approvedRun |-> NoRun]
  /\ documents = <<"stored">>
  /\ runs = <<>>
  /\ task = [t \in Tasks |-> [route |-> "analyze", status |-> "none"]]
  /\ message = [t \in Tasks |-> [place |-> "none", retries |-> 0, run |-> NoRun]]
  /\ uploading = TRUE
  /\ crashes = 0

SetStatus(s) == quote' = [quote EXCEPT !.status = s]

MoveMessage(t, from, to) ==
  /\ message[t].place = from
  /\ message' = [message EXCEPT ![t].place = to]

-----------------------------------------------------------------------------
(* Reception *)

\* UploadQuoteDocumentWorkflow: the upload committed the quote in
\* "validating"; a second transaction makes it ready.
UploadMarksReady ==
  /\ uploading
  /\ MayBecomeReady(quote.status)
  /\ SetStatus("ready_for_analysis")
  /\ uploading' = FALSE
  /\ UNCHANGED <<documents, runs, task, message, crashes>>

\* The request ends without its second transaction: it was refused because
\* the quote had moved on, the process died, or the upload came by the legacy
\* endpoint, which has none.
UploadEnds ==
  /\ uploading
  /\ uploading' = FALSE
  /\ UNCHANGED <<quote, documents, runs, task, message, crashes>>

\* AddQuoteDocument, with a file the quote does not have yet.
AddDocument ==
  /\ quote.status \notin Approved
  /\ Len(documents) < MaxDocuments
  /\ documents' = Append(documents, "stored")
  /\ UNCHANGED <<quote, runs, task, message, uploading, crashes>>

-----------------------------------------------------------------------------
(* Requests *)

CreateTask(t, route) ==
  /\ route \in Routes
  /\ MoveMessage(t, "none", "requested")
  /\ task' = [task EXCEPT ![t] = [route |-> route, status |-> "queued"]]
  /\ UNCHANGED <<documents, runs, uploading, crashes>>

\* QueueQuoteAnalysis: an analysis that was already completed is answered from
\* its run; otherwise the quote must be ready, or become so.
RequestAnalysis(t) ==
  /\ CompletedRuns # {} => ~Usable(LatestCompleted)
  /\ MayBecomeReady(quote.status)
  /\ SetStatus("ready_for_analysis")
  /\ CreateTask(t, "analyze")

\* QueueQuoteAnalysis with force_reanalysis.
RequestReanalysis(t) ==
  /\ MayRestartAnalysis(quote.status)
  /\ SetStatus("ready_for_analysis")
  /\ CreateTask(t, "reanalyze")

\* QueueQuoteProcessing, the legacy request, which leaves a received quote in
\* "validating".
RequestProcessing(t) ==
  /\ quote.status \in {"received", "validating", "extracting"}
  /\ IF quote.status = "received" THEN SetStatus("validating") ELSE UNCHANGED quote
  /\ CreateTask(t, "process")

\* ReprocessQuote: QueueQuoteProcessing with force_reprocess.
RequestReprocessing(t) ==
  /\ MayRestartProcessing(quote.status)
  /\ SetStatus("validating")
  /\ CreateTask(t, "reprocess")

\* The request publishes the task it committed.
Publish(t) ==
  /\ MoveMessage(t, "requested", "queued")
  /\ UNCHANGED <<quote, documents, runs, task, uploading, crashes>>

\* Publishing raises, with the task refused by the broker or, if only its answer
\* was lost, with a message that will be delivered: the failure is written to the
\* quote and to the task row.  The legacy request calls mark_failed, which raises
\* from a state without a transition to "failed": then neither row changes.
PublishFails(t) ==
  /\ \/ MoveMessage(t, "requested", "gone")
     \/ task[t].route \in LostAnswers /\ MoveMessage(t, "requested", "queued")
  /\ LET legacy == task[t].route \in {"process", "reprocess"}
         refused == legacy /\ ~MayMove(quote.status, "failed")
     IN  IF refused
           THEN UNCHANGED <<quote, task>>
           ELSE /\ SetStatus(IF legacy THEN "failed"
                                       ELSE AfterAnalysisFailure(quote.status))
                /\ task' = [task EXCEPT ![t].status = "retry_pending"]
  /\ UNCHANGED <<documents, runs, uploading, crashes>>

\* The API process dies between its commit and the publication.
RequestDies(t) ==
  /\ MoveMessage(t, "requested", "gone")
  /\ UNCHANGED <<quote, documents, runs, task, uploading, crashes>>

-----------------------------------------------------------------------------
(* The worker *)

\* The prologue of a retried delivery, in its own transaction: a failed quote
\* goes back to "validating".
RestartForRetry(t) ==
  /\ message[t].retries > 0
  /\ MoveMessage(t, "queued", "restarted")
  /\ IF quote.status = "failed" THEN SetStatus("validating") ELSE UNCHANGED quote
  /\ UNCHANGED <<documents, runs, task, uploading, crashes>>

\* AnalyzeQuote.execute is about to run.
AtExecute(t) ==
  \/ message[t].place = "queued" /\ message[t].retries = 0
  \/ message[t].place = "restarted"

LeaveFor(t, place) == message' = [message EXCEPT ![t].place = place]

\* The AI service has no API key: the task retries before it opens the quote.
AiServiceMissing(t) ==
  /\ KeyMayMiss
  /\ AtExecute(t)
  /\ LeaveFor(t, "retrying")
  /\ UNCHANGED <<quote, documents, runs, task, uploading, crashes>>

\* Mutant of MayReuse: only the request looks for a completed run.
NeverReuse(t) == FALSE

MayReuse(t) == ~Forced(task[t].route) /\ ReusableFor(Len(documents)) # {}

\* The latest document was analyzed already: nothing is written.
ReuseCompletedRun(t) ==
  /\ AtExecute(t)
  /\ MayReuse(t)
  /\ LeaveFor(t, "returned")
  /\ UNCHANGED <<quote, documents, runs, task, uploading, crashes>>

\* Mutant of MayStartAnalysis: a quote that is being analyzed is refused.
RefuseWhileAnalyzing(t) ==
  IF Forced(task[t].route) /\ quote.status # "ready_for_analysis"
    THEN MayRestartAnalysis(quote.status)
    ELSE MayBecomeReady(quote.status)

\* The quote can enter "analyzing": a forced task first restarts a quote that
\* is not ready; a received or validating quote becomes ready; a quote that is
\* being analyzed stays so.
MayStartAnalysis(t) ==
  IF Forced(task[t].route) /\ quote.status # "ready_for_analysis"
    THEN MayRestartAnalysis(quote.status)
    ELSE MayBecomeReady(quote.status) \/ quote.status = "analyzing"

\* The state rules refuse: the transaction is rolled back, the task ends with
\* an error that is not retried, and no row is written.
RefuseAnalysis(t) ==
  /\ AtExecute(t)
  /\ ~MayReuse(t)
  /\ ~MayStartAnalysis(t)
  /\ LeaveFor(t, "returned")
  /\ UNCHANGED <<quote, documents, runs, task, uploading, crashes>>

\* The first transaction of an execution: a new run over the latest document.
StartAnalysis(t) ==
  /\ AtExecute(t)
  /\ ~MayReuse(t)
  /\ MayStartAnalysis(t)
  /\ Len(runs) < MaxRuns
  /\ SetStatus("analyzing")
  /\ runs' = Append(runs, [document |-> Len(documents), task |-> t,
                           status |-> "running", items |-> "none",
                           resolved |-> FALSE, approvedSource |-> FALSE])
  /\ documents' = [documents EXCEPT ![Len(documents)] = AfterStart(@)]
  /\ task' = [task EXCEPT ![t].status = "running"]
  /\ message' = [message EXCEPT ![t] = [@ EXCEPT !.place = "extracting", !.run = Len(runs) + 1]]
  /\ UNCHANGED <<uploading, crashes>>

\* Mutant of PersistAnalysis: the items of the previous extraction stay current.
PersistBesideCurrent(t, resolved) ==
  LET r == message[t].run IN
  /\ MoveMessage(t, "extracting", "returned")
  /\ quote.status = "analyzing"
  /\ SetStatus("pending_review")
  /\ runs' = [runs EXCEPT ![r] = [@ EXCEPT !.status = "completed", !.items = "current",
                                           !.resolved = resolved]]
  /\ documents' = [documents EXCEPT ![runs[r].document] = "processed"]
  /\ task' = [task EXCEPT ![t].status = "succeeded"]
  /\ UNCHANGED <<uploading, crashes>>

\* Mutant of PersistAnalysis: the state read before the extraction is trusted.
PersistWhateverTheState(t, resolved) ==
  LET r == message[t].run IN
  /\ MoveMessage(t, "extracting", "returned")
  /\ SetStatus("pending_review")
  /\ runs' = [s \in RunNumbers |->
                IF s = r
                  THEN [runs[s] EXCEPT !.status = "completed", !.items = "current",
                                       !.resolved = resolved]
                  ELSE [runs[s] EXCEPT !.items = IF @ = "current" THEN "superseded" ELSE @]]
  /\ documents' = [documents EXCEPT ![runs[r].document] = "processed"]
  /\ task' = [task EXCEPT ![t].status = "succeeded"]
  /\ UNCHANGED <<uploading, crashes>>

\* The second transaction: the extracted items replace the current ones, and
\* the quote waits for review.  "resolved" says whether the matcher and the
\* provider left every item ready for approval.
PersistAnalysis(t, resolved) ==
  LET r == message[t].run IN
  /\ MoveMessage(t, "extracting", "returned")
  /\ quote.status = "analyzing"
  /\ SetStatus("pending_review")
  /\ runs' = [s \in RunNumbers |->
                IF s = r
                  THEN [runs[s] EXCEPT !.status = "completed", !.items = "current",
                                       !.resolved = resolved]
                  ELSE [runs[s] EXCEPT !.items = IF @ = "current" THEN "superseded" ELSE @]]
  /\ documents' = [documents EXCEPT ![runs[r].document] = "processed"]
  /\ task' = [task EXCEPT ![t].status = "succeeded"]
  /\ UNCHANGED <<uploading, crashes>>

\* Storage, the extractor, the provider, the response contract or the second
\* transaction raises; the second transaction always does when the quote is no
\* longer "analyzing".  The whole transaction is rolled back.
AnalysisRaises(t) ==
  /\ MoveMessage(t, "extracting", "raising")
  /\ UNCHANGED <<quote, documents, runs, task, uploading, crashes>>

\* Mutant of RecordFailure: the failure is written to the latest run.
FailLatestRun(t, retryable) ==
  /\ MoveMessage(t, "raising", IF retryable THEN "retrying" ELSE "returned")
  /\ SetStatus(AfterAnalysisFailure(quote.status))
  /\ runs' = [runs EXCEPT ![Len(runs)].status = "failed"]
  /\ documents' = [documents EXCEPT ![runs[message[t].run].document] = "failed"]
  /\ task' = [task EXCEPT ![t].status = IF retryable THEN "retry_pending" ELSE "failed"]
  /\ UNCHANGED <<uploading, crashes>>

\* Mutant of RecordFailure: the failure is written to every run of the document.
FailRunsOfDocument(t, retryable) ==
  LET document == runs[message[t].run].document IN
  /\ MoveMessage(t, "raising", IF retryable THEN "retrying" ELSE "returned")
  /\ SetStatus(AfterAnalysisFailure(quote.status))
  /\ runs' = [r \in RunNumbers |-> IF runs[r].document = document
                                     THEN [runs[r] EXCEPT !.status = "failed"] ELSE runs[r]]
  /\ documents' = [documents EXCEPT ![document] = "failed"]
  /\ task' = [task EXCEPT ![t].status = IF retryable THEN "retry_pending" ELSE "failed"]
  /\ UNCHANGED <<uploading, crashes>>

\* Mutant of RecordFailure: the quote is not told.
FailWithoutQuote(t, retryable) ==
  LET r == message[t].run IN
  /\ MoveMessage(t, "raising", IF retryable THEN "retrying" ELSE "returned")
  /\ runs' = [runs EXCEPT ![r].status = "failed"]
  /\ documents' = [documents EXCEPT ![runs[r].document] = "failed"]
  /\ task' = [task EXCEPT ![t].status = IF retryable THEN "retry_pending" ELSE "failed"]
  /\ UNCHANGED <<quote, uploading, crashes>>

\* The third transaction writes the failure to the quote, the run, the
\* document and the task row.  Storage and provider failures, which can happen
\* whatever the rows say, are retryable; every other failure is not.
RecordFailure(t, retryable) ==
  LET r == message[t].run IN
  /\ MoveMessage(t, "raising", IF retryable THEN "retrying" ELSE "returned")
  /\ SetStatus(AfterAnalysisFailure(quote.status))
  /\ runs' = [runs EXCEPT ![r].status = "failed"]
  /\ documents' = [documents EXCEPT ![runs[r].document] = "failed"]
  /\ task' = [task EXCEPT ![t].status = IF retryable THEN "retry_pending" ELSE "failed"]
  /\ UNCHANGED <<uploading, crashes>>

-----------------------------------------------------------------------------
(* The broker *)

\* autoretry_for: publish the next attempt, or give up after MaxRetries.
RetryTask(t) ==
  /\ message[t].place = "retrying"
  /\ message' = [message EXCEPT ![t] =
       IF @.retries < MaxRetries
         THEN [place |-> "queued", retries |-> @.retries + 1, run |-> NoRun]
         ELSE [place |-> "gone", retries |-> @.retries, run |-> NoRun]]
  /\ UNCHANGED <<quote, documents, runs, task, uploading, crashes>>

\* Mutant of Acknowledge: a task that returned is tried again.
RetryOnReturn(t) ==
  /\ message[t].place = "returned"
  /\ message' = [message EXCEPT ![t] =
       IF @.retries < MaxRetries
         THEN [place |-> "queued", retries |-> @.retries + 1, run |-> NoRun]
         ELSE [place |-> "gone", retries |-> @.retries, run |-> NoRun]]
  /\ UNCHANGED <<quote, documents, runs, task, uploading, crashes>>

\* task_acks_late: the message goes away only after the task ran.
Acknowledge(t) ==
  /\ message[t].place = "returned"
  /\ message' = [message EXCEPT ![t] = [@ EXCEPT !.place = "gone", !.run = NoRun]]
  /\ UNCHANGED <<quote, documents, runs, task, uploading, crashes>>

AtWorker == {"restarted", "extracting", "raising", "retrying", "returned"}

\* The worker dies: the message is delivered again, with the same retry count.
WorkerCrash(t) ==
  /\ message[t].place \in AtWorker
  /\ crashes < MaxCrashes
  /\ crashes' = crashes + 1
  /\ message' = [message EXCEPT ![t] = [@ EXCEPT !.place = "queued", !.run = NoRun]]
  /\ UNCHANGED <<quote, documents, runs, task, uploading>>

-----------------------------------------------------------------------------
(* Human review *)

\* UpdateQuoteItem: corrections only ever fill in what approval asks for.
EditItem(r) ==
  /\ quote.status = "pending_review"
  /\ runs[r].items = "current"
  /\ runs' = [runs EXCEPT ![r].resolved = TRUE]
  /\ UNCHANGED <<quote, documents, task, message, uploading, crashes>>

\* Mutant of ApproveQuote: unresolved items pass.
ApproveUnresolved(r) ==
  /\ quote.status = "pending_review"
  /\ runs[r].items = "current"
  /\ runs' = [runs EXCEPT ![r].approvedSource = TRUE]
  /\ quote' = [status |-> "approved", approvedRun |-> r]
  /\ UNCHANGED <<documents, task, message, uploading, crashes>>

\* ApproveQuote: every current item is resolved; the run of the first one
\* becomes the approved source.
ApproveQuote(r) ==
  /\ quote.status = "pending_review"
  /\ runs[r].items = "current"
  /\ \A s \in CurrentRuns : runs[s].resolved
  /\ runs' = [runs EXCEPT ![r].approvedSource = TRUE]
  /\ quote' = [status |-> "approved", approvedRun |-> r]
  /\ UNCHANGED <<documents, task, message, uploading, crashes>>

RejectQuote ==
  /\ MayMove(quote.status, "rejected")
  /\ SetStatus("rejected")
  /\ UNCHANGED <<documents, runs, task, message, uploading, crashes>>

\* GenerateTenderComparison takes the approved quote in.
IncludeInComparison ==
  /\ quote.status = "approved"
  /\ SetStatus("included_in_comparison")
  /\ UNCHANGED <<documents, runs, task, message, uploading, crashes>>

-----------------------------------------------------------------------------
Request(t) ==
  \/ RequestAnalysis(t)
  \/ RequestReanalysis(t)
  \/ RequestProcessing(t)
  \/ RequestReprocessing(t)
  \/ Publish(t)
  \/ PublishFails(t)
  \/ RequestDies(t)

Work(t) ==
  \/ RestartForRetry(t)
  \/ ReuseCompletedRun(t)
  \/ RefuseAnalysis(t)
  \/ StartAnalysis(t)
  \/ \E resolved \in BOOLEAN : PersistAnalysis(t, resolved)
  \/ AnalysisRaises(t)
  \/ \E retryable \in BOOLEAN : RecordFailure(t, retryable)
  \/ RetryTask(t)
  \/ Acknowledge(t)

Reception == UploadMarksReady \/ UploadEnds \/ AddDocument

Review ==
  \/ \E r \in RunNumbers : EditItem(r) \/ ApproveQuote(r)
  \/ RejectQuote
  \/ IncludeInComparison

Next ==
  \/ Reception
  \/ Review
  \/ \E t \in Tasks : Request(t) \/ Work(t) \/ AiServiceMissing(t) \/ WorkerCrash(t)

Spec == Init /\ [][Next]_vars

\* A worker that holds a message goes on with it, and the broker delivers:
\* nothing else is promised, neither by clients nor by reviewers.
FairSpec == Spec /\ \A t \in Tasks : WF_vars(Work(t))

-----------------------------------------------------------------------------
(* Properties *)

\* Every row holds values of its columns, and every reference points to a row.
TypeOK ==
  /\ quote \in [status : QuoteStatus, approvedRun : Nat]
  /\ quote.approvedRun \in RunNumbers \cup {NoRun}
  /\ documents \in Seq(DocumentStatus)
  /\ documents # <<>>
  /\ runs \in Seq(Run)
  /\ \A r \in RunNumbers : runs[r].document \in 1..Len(documents)
  /\ task \in [Tasks -> [route : AllRoutes, status : TaskStatus]]
  /\ message \in [Tasks -> [place : Place, retries : Nat, run : Nat]]
  /\ uploading \in BOOLEAN
  /\ crashes \in Nat

\* A worker between its transactions owns a run of its own that is still
\* running and has written nothing, whatever other workers, retries and
\* redeliveries did to the quote meanwhile.
WorkersOwnRuns ==
  \A t \in Tasks : message[t].place \in {"extracting", "raising"} =>
    LET r == message[t].run IN
    /\ r \in RunNumbers
    /\ runs[r].task = t
    /\ runs[r].status = "running"

\* Items belong to completed runs, and from the first completed run on exactly
\* one run's items are current: a review never mixes two extractions.
OneCurrentExtraction ==
  /\ \A r \in RunNumbers : runs[r].items # "none" <=> runs[r].status = "completed"
  /\ CompletedRuns # {} => \E r \in RunNumbers : CurrentRuns = {r}
  /\ quote.status = "pending_review" => CompletedRuns # {}

\* An approved quote stands on one completed extraction: its items are the
\* current ones, all resolved, and its run is marked as the approved source,
\* even while late workers of the same quote still run.
ApprovalStandsOnItsRun ==
  quote.status \in Approved =>
    /\ quote.approvedRun \in RunNumbers
    /\ LET run == runs[quote.approvedRun] IN
       run.status = "completed" /\ run.items = "current" /\ run.resolved /\ run.approvedSource

\* No step of a worker, a retry, a redelivery or a client takes an approval
\* back or changes the items that were approved.
ApprovalIsFinal ==
  [][quote.status \in Approved =>
       /\ quote'.status \in Approved
       /\ quote'.approvedRun = quote.approvedRun
       /\ CurrentRuns' = CurrentRuns]_vars

\* History is kept: a completed run stays completed, keeps its items (current
\* or superseded) and is never failed by a late worker.
CompletedRunsAreKept ==
  [][\A r \in RunNumbers : runs[r].status = "completed" =>
       /\ r \in RunNumbers'
       /\ runs'[r].status = "completed"
       /\ runs'[r].items # "none"
       /\ runs'[r].document = runs[r].document]_vars

\* A task row that says "succeeded" has a completed run to show for it.
SucceededTasksHaveRuns ==
  \A t \in Tasks : task[t].status = "succeeded" =>
    \E r \in RunNumbers : runs[r].task = t /\ runs[r].status = "completed"

\* Without an explicit reanalysis the document of a quote that gets only one is
\* analyzed to completion at most once, however often its task is duplicated,
\* retried or redelivered.
OneCompletedRunPerDocument ==
  \A r, s \in CompletedRuns : runs[r].document = runs[s].document => r = s

\* A quote in "analyzing" has a message left that will bring a worker to it:
\* no order of failures, duplicates and redeliveries strands it there, where
\* neither an analysis, a reanalysis nor a rejection is accepted.  After the
\* death of a worker this needs that no task is an explicit reanalysis and that
\* no worker misses its key.
AnalyzingIsAttended ==
  /\ quote.status = "analyzing"
  /\ crashes = 0 \/ (~KeyMayMiss /\ \A t \in Tasks : ~Forced(task[t].route))
  => \E t \in Tasks : message[t].place \in AtWorker \cup {"queued"}

\* One request completes at most one run, explicit reanalyses included, as long
\* as no worker dies.
OneCompletedRunPerRequest ==
  crashes = 0 => \A r, s \in CompletedRuns : runs[r].task = runs[s].task => r = s

\* An analysis that started ends: with items to review or with a failure.
AnalysisEnds == quote.status = "analyzing" ~> quote.status # "analyzing"

-----------------------------------------------------------------------------
(* What the component promises to the comparison *)

Phase ==
  CASE quote.status = "pending_review" -> "review"
    [] quote.status = "approved" -> "approved"
    [] quote.status = "included_in_comparison" -> "compared"
    [] OTHER -> "open"

\* The extraction in force.
CurrentRun == IF CurrentRuns = {} THEN NoRun ELSE CHOOSE r \in CurrentRuns : TRUE

Gate == INSTANCE HumanGate
          WITH NoExtraction <- NoRun, phase <- Phase,
               extraction <- CurrentRun, presented <- CompletedRuns

\* The rows of the quote implement the human gate: whatever tasks, retries,
\* crashes and clients do, one extraction at a time is presented, none twice,
\* and the approved one stays.
ImplementsGate == Gate!Spec
=============================================================================
