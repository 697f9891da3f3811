-------------------------- MODULE DocumentPipeline --------------------------
(***************************************************************************)
(* The processing of one uploaded document: publication of its pipeline,   *)
(* claim, text extraction, quality evaluation and the status it ends in.   *)
(*                                                                         *)
(* Only the claim locks the document row.  Every other transaction reads   *)
(* the rows, decides on what it read, and writes whole rows back later; a  *)
(* read and the write that follows it are two steps here, and whatever     *)
(* other transactions wrote in between is overwritten.                     *)
(*                                                                         *)
(* QueueDocumentProcessing and the tasks of the single stages are left out:*)
(* nothing in the application calls the first or publishes the others.     *)
(***************************************************************************)
EXTENDS Naturals

CONSTANTS
  Publishers,  \* the upload and the periodic scans, and bound: how many messages
               \* there may be at a time
  Workers,     \* Celery worker processes of the queue document-processing
  NoMessage,   \* what an idle worker holds
  NotRead,     \* what a transaction that has yet to read knows
  Faults,      \* the faults that may happen, a subset of AllFaults
  MaxDisruptions  \* bound: deaths of worker processes and the archiving of the
                  \* tender, together

VARIABLES
  doc,        \* tender_documents.processing_status
  run,        \* status of the extraction run of the current processing key
  quality,    \* document_qualities.decision of that run
  publisher,  \* "idle", or what the upload or a scan still has to do
  broker,     \* the unacknowledged messages, named after their publishers
  worker,     \* what each worker is doing
  deletion,   \* whether a DELETE request has read the document
  archived,   \* whether the tender of the document is archived
  crashes     \* worker deaths so far

vars == <<doc, run, quality, publisher, broker, worker, deletion, archived, crashes>>

-----------------------------------------------------------------------------
(* Values *)

\* "publish_down": publishing raises.  "redelivery": a message is delivered
\* again while its worker lives.  "bad_file": the stored file is missing or is
\* not what was uploaded.  "extraction": both extractors fail, or writing fails.
AllFaults == {"publish_down", "redelivery", "bad_file", "extraction"}

\* Mutant of DocumentStatus: the column does not know the status of the OCR route.
StatusBeforeOcr == {"uploaded", "queued", "processing", "text_extracted",
                    "ready_for_ai", "failed", "deleted"}

\* DocumentStatus.  Nothing ever calls mark_rejected, so "rejected" is missing.
DocumentStatus == {"uploaded", "queued", "processing", "text_extracted",
                   "ready_for_ai", "needs_ocr", "failed", "deleted"}

\* ExtractionRunStatus; "none": there is no run yet.  mark_reused has no caller.
RunStatus == {"none", "running", "completed", "failed"}

\* The decision, of which manual_review also leads to needs_ocr.
Decisions == {"ready_for_ai", "needs_ocr"}

\* What a transaction read.
Rows == [doc : DocumentStatus, run : RunStatus, quality : {"none"} \cup Decisions]

\* The transactions of start_pipeline after the claim, in the order of a
\* document without errors, and those that record an error.
Stages == {"extract", "store", "evaluate", "finalize", "fail_run", "fail_document"}

\* "extracting": outside of any transaction.  "returned": only the
\* acknowledgement is missing.
Work == [at : Stages \cup {"idle", "extracting", "returned"},
         message : Publishers \cup {NoMessage}, seen : Rows \cup {NotRead}]

Idle == [at |-> "idle", message |-> NoMessage, seen |-> NotRead]

ASSUME NamesAssumption == NoMessage \notin Publishers /\ NotRead \notin Rows
ASSUME FaultsAssumption == Faults \subseteq AllFaults /\ MaxDisruptions \in Nat

-----------------------------------------------------------------------------
(* Domain rules *)

\* _ALLOWED_TRANSITIONS, without "rejected".
Transitions ==
  [uploaded       |-> {"queued", "deleted"},
   queued         |-> {"processing", "failed", "deleted"},
   processing     |-> {"text_extracted", "failed", "deleted"},
   text_extracted |-> {"ready_for_ai", "needs_ocr", "failed", "deleted"},
   ready_for_ai   |-> {"deleted"},
   needs_ocr      |-> {"queued", "deleted"},
   failed         |-> {"queued", "deleted"},
   deleted        |-> {}]

\* _transition and the mark_ methods: to where one is already is no error.
MayMove(from, to) == to = from \/ to \in Transitions[from]

\* What ValidateDocumentForProcessing claims.
Claimable == {"uploaded", "queued", "failed"}

\* The status a transaction finds.  get_by_id joins the tender and does not find
\* the documents of an archived one, which every caller treats as it treats a
\* deleted document.
Visible == IF archived THEN "deleted" ELSE doc

-----------------------------------------------------------------------------
\* A document as the upload leaves it, or as one without a pipeline left it.
Init ==
  /\ \/ doc = "uploaded" /\ publisher = [p \in Publishers |-> "idle"]
     \/ /\ doc = "queued"
        /\ \E p \in Publishers :
             publisher = [q \in Publishers |-> IF q = p THEN "publish" ELSE "idle"]
  /\ run = "none"
  /\ quality = "none"
  /\ broker = {}
  /\ worker = [w \in Workers |-> Idle]
  /\ deletion = "none"
  /\ archived = FALSE
  /\ crashes = 0

-----------------------------------------------------------------------------
(* The scan, and the publication by the upload and the scan *)

Rest == <<run, quality, worker, deletion, archived, crashes>>

\* Mutant of ScanReads: a document whose message was lost is not found.
ScanReadsUploaded(p) ==
  /\ publisher[p] = "idle" /\ p \notin broker
  /\ Visible = "uploaded"
  /\ publisher' = [publisher EXCEPT ![p] = "mark"]
  /\ UNCHANGED <<doc, broker, Rest>>

\* DetectPendingDocuments reads; only what is "uploaded" is written.
ScanReads(p) ==
  /\ publisher[p] = "idle" /\ p \notin broker
  /\ Visible \in {"uploaded", "queued"}
  /\ publisher' = [publisher EXCEPT ![p] = IF doc = "uploaded" THEN "mark" ELSE "publish"]
  /\ UNCHANGED <<doc, broker, Rest>>

ScanMarks(p) ==
  /\ publisher[p] = "mark"
  /\ doc' = "queued"
  /\ publisher' = [publisher EXCEPT ![p] = "publish"]
  /\ UNCHANGED <<broker, Rest>>

Publish(p) ==
  /\ publisher[p] = "publish"
  /\ publisher' = [publisher EXCEPT ![p] = "idle"]
  /\ broker' = broker \cup {p}
  /\ UNCHANGED <<doc, Rest>>

\* The upload logs the error, the scan raises; the next scan is to repair it.
PublishRaises(p) ==
  /\ "publish_down" \in Faults
  /\ publisher[p] = "publish"
  /\ publisher' = [publisher EXCEPT ![p] = "idle"]
  /\ broker' \in {broker, broker \cup {p}}
  /\ UNCHANGED <<doc, Rest>>

-----------------------------------------------------------------------------
(* DeleteTenderDocument *)

DeleteReads ==
  /\ deletion = "none"
  /\ Visible # "deleted"
  /\ deletion' = "read"
  /\ UNCHANGED <<doc, run, quality, publisher, broker, worker, archived, crashes>>

DeleteWrites ==
  /\ deletion = "read"
  /\ doc' = "deleted"
  /\ deletion' = "none"
  /\ UNCHANGED <<run, quality, publisher, broker, worker, archived, crashes>>

Disruptions == crashes + (IF archived THEN 1 ELSE 0)

-----------------------------------------------------------------------------
(* ArchiveTender *)

Archive ==
  /\ ~archived /\ Disruptions < MaxDisruptions
  /\ archived' = TRUE
  /\ UNCHANGED <<doc, run, quality, publisher, broker, worker, deletion, crashes>>

-----------------------------------------------------------------------------
(* The claim *)

Others == <<publisher, deletion, archived, crashes>>

\* w goes on with another transaction, or returns.
Continue(w, at) ==
  worker' = [worker EXCEPT ![w].at = at, ![w].seen = NotRead]

Receives(w, m) ==
  /\ worker[w].at = "idle"
  /\ m \in broker
  /\ "redelivery" \in Faults \/ \A v \in Workers : worker[v].message # m

Takes(w, m, at) == worker' = [worker EXCEPT ![w] = [Idle EXCEPT !.at = at, !.message = m]]

\* ValidateDocumentForProcessing under the row lock.  A bad file is recorded
\* here, and once more by the task.
Claim(w, m) ==
  /\ Receives(w, m)
  /\ Visible \in Claimable
  /\ \/ doc' = "processing" /\ Takes(w, m, "extract")
     \/ "bad_file" \in Faults /\ doc' = "failed" /\ Takes(w, m, "fail_document")
  /\ UNCHANGED <<run, quality, broker, Others>>

\* A duplicate is skipped; a deleted document, or one of an archived tender, is
\* not found.
Skip(w, m) ==
  /\ Receives(w, m)
  /\ Visible \notin Claimable
  /\ Takes(w, m, IF Visible = "deleted" THEN "fail_document" ELSE "returned")
  /\ UNCHANGED <<doc, run, quality, broker, Others>>

-----------------------------------------------------------------------------
(* The transactions of the pipeline *)

\* What the transaction of a stage uses of the rows: the document and then, if it is
\* there, what the stage needs of the run and its evaluation.  Only _record_failure
\* reads the run in any case.
RowsFor(stage) ==
  [doc |-> Visible,
   run |-> IF \/ stage = "fail_run"
              \/ Visible # "deleted" /\ stage \in {"extract", "store", "evaluate"}
             THEN run ELSE "none",
   quality |-> IF Visible # "deleted" /\ stage \in {"evaluate", "finalize"}
                 THEN quality ELSE "none"]

\* The first half of every transaction.
Reads(w) ==
  /\ worker[w].at \in Stages
  /\ worker[w].seen = NotRead
  /\ worker' = [worker EXCEPT ![w].seen = RowsFor(worker[w].at)]
  /\ UNCHANGED <<doc, run, quality, broker, Others>>

\* w is to finish the transaction of a stage, in which it read the rows seen.
HasRead(w, stage) == worker[w].at = stage /\ worker[w].seen # NotRead

Seen(w) == worker[w].seen

\* What ends the transaction before anything is written: the document is gone
\* or has another status, or a unique key is taken.
Raises(w, at) ==
  /\ Continue(w, at)
  /\ UNCHANGED <<doc, run, quality, broker, Others>>

\* ExtractDocumentText, up to its first commit: text that is there is used, and
\* a run that did not complete is restarted.
StartExtraction(w) ==
  /\ HasRead(w, "extract")
  /\ LET seen == Seen(w)
         extracted == seen.doc \in {"text_extracted"} \cup Decisions /\ seen.run # "none"
         reused == ~extracted /\ seen.doc # "deleted" /\ seen.run = "completed"
         started == ~extracted /\ seen.doc # "deleted" /\ seen.run # "completed"
         raises == \/ seen.doc = "deleted"
                   \/ reused /\ ~MayMove(seen.doc, "text_extracted")
                   \/ started /\ seen.run = "none" /\ run # "none"
     IN
     IF raises
       THEN Raises(w, "fail_document")
       ELSE /\ doc' = IF reused THEN "text_extracted" ELSE doc
            /\ run' = IF started THEN "running" ELSE run
            /\ Continue(w, IF started THEN "extracting" ELSE "evaluate")
            /\ UNCHANGED <<quality, broker, Others>>

\* Mutant of Extract: the error is logged and nothing else.
ExtractWithoutHandler(w) ==
  /\ worker[w].at = "extracting"
  /\ \/ Continue(w, "store")
     \/ "extraction" \in Faults /\ Continue(w, "returned")
  /\ UNCHANGED <<doc, run, quality, broker, Others>>

Extract(w) ==
  /\ worker[w].at = "extracting"
  /\ \/ Continue(w, "store")
     \/ "extraction" \in Faults /\ Continue(w, "fail_run")
  /\ UNCHANGED <<doc, run, quality, broker, Others>>

\* ExtractDocumentText, the transaction after the extraction.  The pages of a
\* run are unique: if another worker stores them meanwhile, the insert raises.
StoreText(w) ==
  /\ HasRead(w, "store")
  /\ \/ /\ MayMove(Seen(w).doc, "text_extracted")
        /\ run' = "completed"
        /\ doc' = "text_extracted"
        /\ Continue(w, "evaluate")
        /\ UNCHANGED <<quality, broker, Others>>
     \/ /\ \/ ~MayMove(Seen(w).doc, "text_extracted")
           \/ Seen(w).run # "completed" /\ run = "completed"
        /\ Raises(w, "fail_run")

\* _record_failure.
FailRun(w) ==
  /\ HasRead(w, "fail_run")
  /\ LET seen == Seen(w) IN
     IF seen.doc = "deleted" \/ MayMove(seen.doc, "failed")
       THEN /\ run' = IF seen.run = "running" THEN "failed" ELSE run
            /\ doc' = IF seen.doc = "deleted" THEN doc ELSE "failed"
            /\ Continue(w, "fail_document")
            /\ UNCHANGED <<quality, broker, Others>>
       ELSE Raises(w, "fail_document")

\* Mutant of EvaluateQuality: an evaluation replaces the previous one.
EvaluateAgain(w) ==
  /\ HasRead(w, "evaluate")
  /\ Seen(w).run = "completed"
  /\ quality' \in Decisions
  /\ Continue(w, "finalize")
  /\ UNCHANGED <<doc, run, broker, Others>>

\* A run has one evaluation.
EvaluateQuality(w) ==
  /\ HasRead(w, "evaluate")
  /\ LET seen == Seen(w)
         found == seen.doc # "deleted" /\ seen.run = "completed"
     IN
     IF ~found \/ (seen.quality = "none" /\ quality # "none")
       THEN Raises(w, "fail_document")
       ELSE /\ IF seen.quality = "none" THEN quality' \in Decisions ELSE UNCHANGED quality
            /\ Continue(w, "finalize")
            /\ UNCHANGED <<doc, run, broker, Others>>

\* FinalizeDocumentProcessing.
Finalize(w) ==
  /\ HasRead(w, "finalize")
  /\ LET seen == Seen(w)
         done == seen.doc \in Decisions
     IN
     IF ~done /\ (seen.quality = "none" \/ ~MayMove(seen.doc, seen.quality))
       THEN Raises(w, "fail_document")
       ELSE /\ doc' = IF done THEN doc ELSE seen.quality
            /\ Continue(w, "returned")
            /\ UNCHANGED <<run, quality, broker, Others>>

\* MarkDocumentProcessingFailed, for any error of the pipeline.
FailDocument(w) ==
  /\ HasRead(w, "fail_document")
  /\ IF Seen(w).doc \notin {"deleted", "failed"} /\ MayMove(Seen(w).doc, "failed")
       THEN /\ doc' = "failed"
            /\ Continue(w, "returned")
            /\ UNCHANGED <<run, quality, broker, Others>>
       ELSE Raises(w, "returned")

Acknowledge(w) ==
  /\ worker[w].at = "returned"
  /\ broker' = broker \ {worker[w].message}
  /\ worker' = [worker EXCEPT ![w] = Idle]
  /\ UNCHANGED <<doc, run, quality, Others>>

WorkerDies(w) ==
  /\ Disruptions < MaxDisruptions
  /\ worker[w].at # "idle"
  /\ worker' = [worker EXCEPT ![w] = Idle]
  /\ crashes' = crashes + 1
  /\ UNCHANGED <<doc, run, quality, publisher, broker, deletion, archived>>

-----------------------------------------------------------------------------
PublisherStep(p) == ScanMarks(p) \/ Publish(p) \/ PublishRaises(p)

PipelineStep(w) ==
  \/ Reads(w) \/ StartExtraction(w) \/ Extract(w) \/ StoreText(w) \/ FailRun(w)
  \/ EvaluateQuality(w) \/ Finalize(w) \/ FailDocument(w) \/ Acknowledge(w)

Next ==
  \/ \E p \in Publishers : ScanReads(p) \/ PublisherStep(p)
  \/ DeleteReads \/ DeleteWrites \/ Archive
  \/ \E w \in Workers :
       \/ \E m \in broker : Claim(w, m) \/ Skip(w, m)
       \/ PipelineStep(w)
       \/ WorkerDies(w)

Spec == Init /\ [][Next]_vars

\* Processes that live take their next step, the beat goes on, and the broker
\* does not refuse every message.
Fairness ==
  /\ \A p \in Publishers :
       WF_vars(ScanReads(p)) /\ WF_vars(PublisherStep(p)) /\ SF_vars(Publish(p))
  /\ \A w \in Workers :
       WF_vars(PipelineStep(w) \/ \E m \in broker : Claim(w, m) \/ Skip(w, m))

FairSpec == Spec /\ Fairness

-----------------------------------------------------------------------------
(* Properties *)

\* Every row is well typed, and every worker and message is a publisher's.
TypeOK ==
  /\ doc \in DocumentStatus
  /\ run \in RunStatus
  /\ quality \in {"none"} \cup Decisions
  /\ publisher \in [Publishers -> {"idle", "mark", "publish"}]
  /\ broker \subseteq Publishers
  /\ worker \in [Workers -> Work]
  /\ deletion \in {"none", "read"}
  /\ archived \in BOOLEAN
  /\ crashes \in Nat

\* Without crashes, a document that is being processed has a worker that is
\* still going to write it, however often it was claimed, failed or marked
\* meanwhile: the claim keeps everybody else away from it for good.  Archiving
\* the tender ends this: the worker no longer finds the document and gives up.
Attended == \E w \in Workers : worker[w].at \in Stages \cup {"extracting"}

ProcessingIsAttended ==
  crashes = 0 /\ ~archived /\ doc \in {"processing", "text_extracted"} => Attended

\* The three rows agree: what is offered to the AI, or put aside for OCR, was
\* extracted at least once and evaluated with that very result.
StatusMatchesEvaluation ==
  doc \in Decisions => doc = quality /\ run # "none"

\* Without crashes, a document that is queued or claimed gets a result, whatever
\* becomes of the publications and whoever else works on it, as long as its
\* tender is not archived.
ProcessingEnds ==
  doc \in {"queued", "processing", "text_extracted"} ~>
    doc \notin {"queued", "processing", "text_extracted"} \/ archived \/ crashes > 0
=============================================================================
