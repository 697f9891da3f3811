---------------------------- MODULE RfqDelivery ----------------------------
(***************************************************************************)
(* The life of one RFQ: drafting, human review, approval, asynchronous     *)
(* e-mail delivery.                                                        *)
(*                                                                         *)
(* An RFQ is of one of two kinds for its whole life.  One that was         *)
(* generated for a reviewed contact (rfq.contact_id is set) is sent by     *)
(* QueueRfq, RetryFailedRfq and SendRfq; a legacy one is sent by           *)
(* QueueRfqSend and DeliverRfq.                                            *)
(*                                                                         *)
(* Every action is one transaction under the row lock of the RFQ, one step *)
(* of the broker, or the answer of the mail server, which comes while no   *)
(* lock is held.  A broker message stays until its worker acknowledges it: *)
(* that of a worker that dies, or that is late beyond the visibility       *)
(* timeout, is delivered again.                                            *)
(***************************************************************************)
EXTENDS Naturals, Sequences

CONSTANTS
  Tasks,       \* one per send or retry request, with its RfqTaskRecord row
  Workers,     \* Celery worker processes of the queue rfq-delivery
  NoMessage,   \* what an idle worker holds
  Faults,      \* the faults that may happen, a subset of AllFaults
  MaxRetries,  \* settings.rfq_delivery_max_retries
  MaxVersion,  \* bound: versions of the RFQ
  MaxCrashes   \* bound: deaths of API or worker processes

VARIABLES
  rfq,         \* the rfq_requests row
  emails,      \* the email_messages rows, indexed by attempt_number
  task,        \* status of the rfq_task_records rows
  request,     \* per task: what the API request that made it still has to do
  broker,      \* the unacknowledged messages of the queue
  worker,      \* what each worker is doing
  checks,      \* which preconditions of a send hold outside the RFQ
  accepted,    \* the versions the mail server accepted, in order
  crashes      \* process deaths so far

vars == <<rfq, emails, task, request, broker, worker, checks, accepted, crashes>>

-----------------------------------------------------------------------------
(* Values *)

\* "queue_down", "retry_queue_down": publishing a send or a retry raises.
\* "late_answer": the server took the message, and then refuses a recipient of
\* it or answers the closing QUIT with an error.  "redelivery": a message is delivered again
\* while its worker is alive.  "checks_change": users, suppliers, contacts,
\* products and the tender change while the RFQ is on its way.
AllFaults == {"queue_down", "retry_queue_down", "late_answer", "redelivery",
              "checks_change"}

\* RfqStatus.  Nothing ever calls mark_delivered, so "delivered" is missing.
RfqStatus == {"draft", "pending_review", "approved", "queued", "sending", "sent",
              "responded", "failed", "retry_pending", "cancelled"}

EmailStatus == {"sending", "sent", "failed"}

TaskStatus == {"none", "queued", "running", "retry_pending", "succeeded", "failed"}

\* rfq.to_recipients against the reviewed contact.
Recipients == {"none", "contact", "other"}

\* error_type of an attempt: RetryableEmailDeliveryError, Ambiguous..., others.
Errors == {"none", "retryable", "permanent", "ambiguous"}

\* "parties": the requesting user is authorized, the supplier approved, the
\* contact valid and unchanged, the products approved.  "tender": the tender
\* is open.
Checks == {"parties", "tender"}

\* The columns of a row that the use cases decide on.  key is the version the
\* idempotency key was made of, 0 if there is none.
Rfq == [contact : BOOLEAN, status : RfqStatus, version : 1..MaxVersion,
        key : 0..MaxVersion, to : Recipients]

Email == [version : 1..MaxVersion, key : 1..MaxVersion, to : Recipients,
          status : EmailStatus, error : Errors]

\* An execution of the Celery task, and the retries it has behind it.
Message == [task : Tasks, retry : 0..MaxRetries]

\* "sending", "answered": between the two transactions of a send, before and
\* after the mail server answered; "retrying": the failure is recorded, the
\* retry not yet published; "returned": only the acknowledgement is missing.
Work == [at : {"idle", "sending", "answered", "retrying", "returned"},
         message : Message \cup {NoMessage}, email : Nat, error : Errors]

Idle == [at |-> "idle", message |-> NoMessage, email |-> 0, error |-> "none"]

ASSUME FaultsAssumption == Faults \subseteq AllFaults
ASSUME NoMessageAssumption == NoMessage \notin Message
ASSUME BoundsAssumption ==
  MaxRetries \in Nat /\ MaxVersion \in Nat \ {0} /\ MaxCrashes \in Nat

-----------------------------------------------------------------------------
(* Domain rules *)

\* _RFQ_TRANSITIONS.
Transitions ==
  [draft          |-> {"pending_review", "cancelled"},
   pending_review |-> {"draft", "approved", "cancelled"},
   approved       |-> {"queued", "cancelled"},
   queued         |-> {"sending", "failed", "retry_pending", "cancelled"},
   sending        |-> {"sent", "failed", "retry_pending"},
   sent           |-> {},
   responded      |-> {},
   failed         |-> {"retry_pending", "cancelled"},
   retry_pending  |-> {"queued", "cancelled"},
   cancelled      |-> {}]

\* Mutant of Editable: an approved RFQ can still be edited.
EditableUntilQueued == {"draft", "pending_review", "approved"}

\* The states in which edit and record_attachment_edit are accepted.
Editable == {"draft", "pending_review"}

\* The states validate_rfq_send accepts.
Sendable == {"approved", "queued", "sending", "sent", "failed", "retry_pending"}

\* Mutant of ValidSend: the recipients are not compared with the contact.
ValidWithoutRecipients ==
  checks = Checks /\ rfq.status \in Sendable /\ rfq.contact

\* validate_rfq_send.
ValidSend ==
  /\ checks = Checks
  /\ rfq.status \in Sendable
  /\ rfq.contact
  /\ rfq.to = "contact"

\* Mutant of IsAmbiguous: the name the attempt stores is not the one compared.
NeverAmbiguous(email) == email.error = "AmbiguousDelivery"

\* The attempt may have been accepted although it failed.
IsAmbiguous(email) == email.error = "ambiguous"

\* Mutant of StatusAfterFailure: a transient failure puts the RFQ back in the
\* queue.
BackInQueue(contact, error) ==
  IF contact /\ error = "retryable" THEN "queued" ELSE "failed"

\* Mutant of StatusAfterFailure: the status is taken from the error.
StatusFromError(contact, error) == error

\* SendRfq keeps a transient failure retryable; DeliverRfq fails on any error.
StatusAfterFailure(contact, error) ==
  IF contact /\ error = "retryable" THEN "retry_pending" ELSE "failed"

\* What the mail server does and what the worker learns of it.  An attachment
\* that cannot be loaded counts as a permanent failure.
Outcomes ==
  {[accepted |-> TRUE, error |-> "none"]}
  \cup [accepted : {FALSE}, error : {"retryable", "permanent"}]
  \cup [accepted : BOOLEAN, error : {"ambiguous"}]
  \cup IF "late_answer" \in Faults
         THEN [accepted : {TRUE}, error : {"retryable", "permanent"}]
         ELSE {}

-----------------------------------------------------------------------------
(* The initial state: an RFQ as one of the generators left it *)

\* GenerateRfq: a draft for a reviewed contact.
GeneratedForContact ==
  [contact |-> TRUE, status |-> "draft", version |-> 1, key |-> 0, to |-> "contact"]

\* GenerateTenderRfqs: already in review, to whatever addresses were found.
GeneratedForTender(to) ==
  [contact |-> FALSE, status |-> "pending_review", version |-> 1, key |-> 0, to |-> to]

Init ==
  /\ \/ rfq = GeneratedForContact
     \/ \E to \in {"none", "other"} : rfq = GeneratedForTender(to)
  /\ emails = <<>>
  /\ task = [t \in Tasks |-> "none"]
  /\ request = [t \in Tasks |-> "none"]
  /\ broker = {}
  /\ worker = [w \in Workers |-> Idle]
  /\ checks = Checks
  /\ accepted = <<>>
  /\ crashes = 0

-----------------------------------------------------------------------------
(* Drafting and review *)

Delivery == <<emails, task, request, broker, worker>>
Outside == <<checks, accepted, crashes>>

\* RfqRequest.edit and record_attachment_edit: n new versions, nothing approved.
Edited(n, to) ==
  /\ rfq.status \in Editable
  /\ rfq.version + n <= MaxVersion
  /\ rfq' = [rfq EXCEPT !.status = "draft", !.version = @ + n, !.key = 0, !.to = to]

\* PATCH: the recipients are those of the contact, one version per change.
UpdateRfqWorkflow ==
  /\ Edited(1, rfq.to)
  /\ UNCHANGED <<Delivery, Outside>>

\* PUT: any recipients, also on an RFQ with a contact; a change of content and
\* a change of attachments make a version each.
UpdateRfq ==
  /\ \E n \in {1, 2}, to \in IF rfq.contact THEN Recipients ELSE {"none", "other"} :
       Edited(n, to)
  /\ UNCHANGED <<Delivery, Outside>>

SubmitRfqForReview ==
  /\ rfq.status = "draft"
  /\ rfq.contact
  /\ "parties" \in checks
  /\ rfq' = [rfq EXCEPT !.status = "pending_review"]
  /\ UNCHANGED <<Delivery, Outside>>

RejectRfq ==
  /\ rfq.status = "pending_review"
  /\ rfq' = [rfq EXCEPT !.status = "draft", !.key = 0]
  /\ UNCHANGED <<Delivery, Outside>>

\* ApproveRfqWorkflow, or ApproveRfq without a contact: the key of the sends
\* is made of the version that is approved.
ApproveRfq ==
  /\ rfq.status = "pending_review"
  /\ rfq.contact => "parties" \in checks
  /\ rfq.to # "none"
  /\ rfq' = [rfq EXCEPT !.status = "approved", !.key = rfq.version]
  /\ UNCHANGED <<Delivery, Outside>>

CancelRfq ==
  /\ "cancelled" \in Transitions[rfq.status]
  /\ rfq' = [rfq EXCEPT !.status = "cancelled"]
  /\ UNCHANGED <<Delivery, Outside>>

-----------------------------------------------------------------------------
(* Send and retry requests *)

\* get_sent_message(rfq.id, rfq.version).
SentVersion ==
  \E i \in DOMAIN emails : emails[i].version = rfq.version /\ emails[i].status = "sent"

\* The request of t commits and has its message to publish.
Requested(t, kind) ==
  /\ request[t] = "none"
  /\ request' = [request EXCEPT ![t] = kind]
  /\ rfq' = [rfq EXCEPT !.status = "queued"]

QueueRfq(t) ==
  /\ ValidSend
  /\ rfq.status = "approved"
  /\ Requested(t, "queue")
  /\ task' = [task EXCEPT ![t] = "queued"]
  /\ UNCHANGED <<emails, broker, worker, Outside>>

\* The legacy send makes no task row; queue() accepts what the table accepts.
QueueRfqSend(t) ==
  /\ ~rfq.contact
  /\ ~SentVersion
  /\ rfq.key # 0
  /\ "queued" \in Transitions[rfq.status]
  /\ Requested(t, "queue")
  /\ UNCHANGED <<emails, task, broker, worker, Outside>>

\* messages[-1] of list_messages.
LastAttempt == emails[Len(emails)]

RetryFailedRfq(t) ==
  /\ rfq.status \in {"failed", "retry_pending"}
  /\ emails # <<>> => ~IsAmbiguous(LastAttempt)
  /\ ValidSend
  /\ rfq.key # 0
  /\ Requested(t, "retry")
  /\ task' = [task EXCEPT ![t] = "queued"]
  /\ UNCHANGED <<emails, broker, worker, Outside>>

PublishedBy(t) == [task |-> t, retry |-> 0]

Publish(t) ==
  /\ request[t] \in {"queue", "retry"}
  /\ request' = [request EXCEPT ![t] = "done"]
  /\ broker' = broker \cup {PublishedBy(t)}
  /\ UNCHANGED <<rfq, emails, task, worker, Outside>>

\* Publishing raises, whether or not the broker got the message.
\* RetryFailedRfq has no except branch; that of a send is still to run.
PublishRaises(t) ==
  /\ \/ /\ "queue_down" \in Faults
        /\ request[t] = "queue"
        /\ request' = [request EXCEPT ![t] = "unavailable"]
     \/ /\ "retry_queue_down" \in Faults
        /\ request[t] = "retry"
        /\ request' = [request EXCEPT ![t] = "done"]
  /\ broker' \in {broker, broker \cup {PublishedBy(t)}}
  /\ UNCHANGED <<rfq, emails, task, worker, Outside>>

\* Mutant of QueueUnavailable: the RFQ is failed whatever became of it.
QueueUnavailableFailsAll(t) ==
  /\ request[t] = "unavailable"
  /\ request' = [request EXCEPT ![t] = "done"]
  /\ "failed" \in Transitions[rfq.status]
  /\ rfq' = [rfq EXCEPT !.status = "failed"]
  /\ task' = IF rfq.contact THEN [task EXCEPT ![t] = "failed"] ELSE task
  /\ UNCHANGED <<emails, broker, worker, Outside>>

\* The except branches of QueueRfq and QueueRfqSend, in a new transaction:
\* the RFQ may have been delivered in between, if the broker got the message.
QueueUnavailable(t) ==
  /\ request[t] = "unavailable"
  /\ request' = [request EXCEPT ![t] = "done"]
  /\ rfq' = [rfq EXCEPT !.status = IF @ = "queued" THEN "failed" ELSE @]
  /\ task' = IF rfq.contact THEN [task EXCEPT ![t] = "failed"] ELSE task
  /\ UNCHANGED <<emails, broker, worker, Outside>>

RequestDies(t) ==
  /\ crashes < MaxCrashes
  /\ request[t] \in {"queue", "retry", "unavailable"}
  /\ request' = [request EXCEPT ![t] = "done"]
  /\ crashes' = crashes + 1
  /\ UNCHANGED <<rfq, emails, task, broker, worker, checks, accepted>>

-----------------------------------------------------------------------------
(* The worker: the transaction before the send *)

\* The broker hands m to w.
Receives(w, m) ==
  /\ worker[w].at = "idle"
  /\ m \in broker
  /\ "redelivery" \in Faults \/ \A v \in Workers : worker[v].message # m

\* The worker has nothing left to do but acknowledge.
Returned(m) == [Idle EXCEPT !.at = "returned", !.message = m]

\* get_message_by_idempotency(rfq.send_idempotency_key).
Existing == {i \in DOMAIN emails : emails[i].key = rfq.key}

NewEmail ==
  [version |-> rfq.version, key |-> rfq.key, to |-> rfq.to,
   status |-> "sending", error |-> "none"]

\* SendRfq finds the RFQ sent.
AlreadySent == ValidSend /\ \E i \in Existing : emails[i].status = "sent"

\* Mutant of MayStart: an attempt whose worker seems gone is taken over.
MayTakeOver ==
  IF rfq.contact
    THEN /\ ValidSend
         /\ \A i \in Existing : emails[i].status # "sent" /\ ~IsAmbiguous(emails[i])
         /\ rfq.status \in {"queued", "retry_pending", "sending"}
    ELSE ~SentVersion /\ rfq.status = "queued"

\* SendRfq or DeliverRfq starts an attempt.
MayStart ==
  IF rfq.contact
    THEN /\ ValidSend
         /\ \A i \in Existing : emails[i].status = "failed" /\ ~IsAmbiguous(emails[i])
         /\ rfq.status \in {"queued", "retry_pending"}
    ELSE ~SentVersion /\ rfq.status = "queued"

\* SendRfq uses the failed attempt again; DeliverRfq makes a new one.
Attempt ==
  IF rfq.contact /\ Existing # {}
    THEN CHOOSE i \in Existing : TRUE
    ELSE Len(emails) + 1

StartSending(w, m) ==
  /\ Receives(w, m)
  /\ MayStart
  /\ rfq' = [rfq EXCEPT !.status = "sending"]
  /\ emails' = IF Attempt \in DOMAIN emails
                 THEN [emails EXCEPT ![Attempt].status = "sending", ![Attempt].error = "none"]
                 ELSE Append(emails, NewEmail)
  /\ task' = IF rfq.contact THEN [task EXCEPT ![m.task] = "running"] ELSE task
  /\ worker' = [worker EXCEPT ![w] =
                  [at |-> "sending", message |-> m, email |-> Attempt, error |-> "none"]]
  /\ UNCHANGED <<request, broker, Outside>>

FindSent(w, m) ==
  /\ Receives(w, m)
  /\ AlreadySent
  /\ task' = [task EXCEPT ![m.task] = "succeeded"]
  /\ worker' = [worker EXCEPT ![w] = Returned(m)]
  /\ UNCHANGED <<rfq, emails, request, broker, Outside>>

\* The attempt is another worker's, or an error that is not retried rolls the
\* transaction back.
LeaveAlone(w, m) ==
  /\ Receives(w, m)
  /\ ~MayStart /\ ~AlreadySent
  /\ worker' = [worker EXCEPT ![w] = Returned(m)]
  /\ UNCHANGED <<rfq, emails, task, request, broker, Outside>>

-----------------------------------------------------------------------------
(* The worker: the send, and the transaction after it *)

MailServerAnswers(w) ==
  /\ worker[w].at = "sending"
  /\ \E o \in Outcomes :
       /\ worker' = [worker EXCEPT ![w].at = "answered", ![w].error = o.error]
       /\ accepted' = IF o.accepted
                        THEN Append(accepted, emails[worker[w].email].version)
                        ELSE accepted
  /\ UNCHANGED <<rfq, emails, task, request, broker, checks, crashes>>

\* What the transaction after the send finds; succeed() and fail() of the
\* attempt and the moves of the RFQ raise otherwise.
OwnsAttempt(w) ==
  /\ worker[w].at = "answered"
  /\ worker[w].email \in DOMAIN emails
  /\ emails[worker[w].email].status = "sending"

\* The task row of w's message is set, if it has one.
TaskOf(w, status) ==
  task' = IF rfq.contact THEN [task EXCEPT ![worker[w].message.task] = status] ELSE task

RecordSent(w) ==
  /\ OwnsAttempt(w)
  /\ worker[w].error = "none"
  /\ "sent" \in Transitions[rfq.status]
  /\ emails' = [emails EXCEPT ![worker[w].email].status = "sent"]
  /\ rfq' = [rfq EXCEPT !.status = "sent"]
  /\ TaskOf(w, "succeeded")
  /\ worker' = [worker EXCEPT ![w] = Returned(worker[w].message)]
  /\ UNCHANGED <<request, broker, Outside>>

\* Celery retries RetryableEmailDeliveryError, of either sender.
RecordFailure(w) ==
  /\ OwnsAttempt(w)
  /\ worker[w].error # "none"
  /\ LET error == worker[w].error
         status == StatusAfterFailure(rfq.contact, error)
         retried == error = "retryable" /\ worker[w].message.retry < MaxRetries
     IN
     /\ "failed" \in Transitions[rfq.status]
     /\ emails' = [emails EXCEPT ![worker[w].email].status = "failed",
                                 ![worker[w].email].error = error]
     /\ rfq' = [rfq EXCEPT !.status = status]
     /\ TaskOf(w, IF error = "retryable" THEN "retry_pending" ELSE "failed")
     /\ worker' = [worker EXCEPT ![w] =
          [Returned(worker[w].message) EXCEPT !.at = IF retried THEN "retrying" ELSE "returned"]]
  /\ UNCHANGED <<request, broker, Outside>>

PublishRetry(w) ==
  /\ worker[w].at = "retrying"
  /\ broker' = broker \cup {[worker[w].message EXCEPT !.retry = @ + 1]}
  /\ worker' = [worker EXCEPT ![w].at = "returned"]
  /\ UNCHANGED <<rfq, emails, task, request, Outside>>

Acknowledge(w) ==
  /\ worker[w].at = "returned"
  /\ broker' = broker \ {worker[w].message}
  /\ worker' = [worker EXCEPT ![w] = Idle]
  /\ UNCHANGED <<rfq, emails, task, request, Outside>>

WorkerDies(w) ==
  /\ crashes < MaxCrashes
  /\ worker[w].at # "idle"
  /\ worker' = [worker EXCEPT ![w] = Idle]
  /\ crashes' = crashes + 1
  /\ UNCHANGED <<rfq, emails, task, request, broker, checks, accepted>>

-----------------------------------------------------------------------------
(* What happens to the RFQ from outside *)

\* The upload of a quote marks the RFQ and its supplier: an RFQ can no longer
\* be sent to that supplier.
SupplierResponds ==
  /\ rfq.status = "sent"
  /\ rfq' = [rfq EXCEPT !.status = "responded"]
  /\ checks' = checks \ {"parties"}
  /\ UNCHANGED <<Delivery, accepted, crashes>>

ChecksChange ==
  /\ "checks_change" \in Faults
  /\ rfq.status # "responded"
  /\ \E c \in Checks : checks' = IF c \in checks THEN checks \ {c} ELSE checks \cup {c}
  /\ UNCHANGED <<rfq, Delivery, accepted, crashes>>

-----------------------------------------------------------------------------
UserStep ==
  \/ UpdateRfqWorkflow \/ UpdateRfq
  \/ SubmitRfqForReview \/ RejectRfq \/ ApproveRfq \/ CancelRfq
  \/ \E t \in Tasks : QueueRfq(t) \/ QueueRfqSend(t) \/ RetryFailedRfq(t)

PublishStep(t) == Publish(t) \/ PublishRaises(t) \/ QueueUnavailable(t)

WorkStep(w) ==
  \/ \E m \in broker : StartSending(w, m) \/ FindSent(w, m) \/ LeaveAlone(w, m)
  \/ MailServerAnswers(w) \/ RecordSent(w) \/ RecordFailure(w)
  \/ PublishRetry(w) \/ Acknowledge(w)

Next ==
  \/ UserStep
  \/ \E t \in Tasks : PublishStep(t) \/ RequestDies(t)
  \/ \E w \in Workers : WorkStep(w) \/ WorkerDies(w)
  \/ SupplierResponds
  \/ ChecksChange

Spec == Init /\ [][Next]_vars

\* Processes that live take their next step.
Fairness ==
  /\ \A t \in Tasks : WF_vars(PublishStep(t))
  /\ \A w \in Workers : WF_vars(WorkStep(w))

FairSpec == Spec /\ Fairness

-----------------------------------------------------------------------------
(* Properties *)

\* Every row is well typed, and every worker and message refers to rows.
TypeOK ==
  /\ rfq \in Rfq
  /\ emails \in Seq(Email)
  /\ task \in [Tasks -> TaskStatus]
  /\ request \in [Tasks -> {"none", "queue", "retry", "unavailable", "done"}]
  /\ broker \subseteq Message
  /\ worker \in [Workers -> Work]
  /\ \A w \in Workers : worker[w].at # "idle" => worker[w].message \in Message
  /\ checks \subseteq Checks
  /\ accepted \in Seq(1..MaxVersion)
  /\ crashes \in Nat

Claims == {w \in Workers : worker[w].at \in {"sending", "answered"}}

\* Between the two transactions of a send the RFQ and the attempt stay in
\* "sending" and are one worker's alone, whatever redeliveries, retries,
\* publication failures and people do meanwhile: two workers never talk to
\* the mail server for the same RFQ.
ClaimsAreExclusive ==
  \A w \in Claims :
    /\ \A v \in Claims : v = w
    /\ rfq.status = "sending"
    /\ worker[w].email \in DOMAIN emails
    /\ emails[worker[w].email].status = "sending"

\* The RFQ and its attempts, written by different use cases, agree: the RFQ
\* says it is being sent, or was sent, exactly when an attempt does.
StatusMatchesAttempts ==
  LET some(status) == \E i \in DOMAIN emails : emails[i].status = status IN
  /\ rfq.status = "sending" <=> some("sending")
  /\ rfq.status \in {"sent", "responded"} <=> some("sent")

\* What is handed to the mail server is the version a person approved, and
\* goes to the contact that was reviewed, even if the legacy edit changed the
\* recipients of an RFQ that has a contact.
ApprovedContentIsSent ==
  \A i \in DOMAIN emails :
    /\ emails[i].version = emails[i].key
    /\ rfq.contact => emails[i].to = "contact"

\* A cancelled RFQ stays cancelled and nothing of it is accepted any more,
\* wherever its messages and workers were when it was cancelled.
CancelledIsFinal ==
  [][rfq.status = "cancelled" => rfq'.status = "cancelled" /\ accepted' = accepted]_vars

\* Once an attempt is recorded as ambiguous, no retry, redelivery or request
\* takes it up again or makes the mail server accept the RFQ again.
AmbiguousIsNotResent ==
  [][\A i \in DOMAIN emails :
       emails[i].error = "ambiguous" => emails' = emails /\ accepted' = accepted]_vars

\* A task row says "succeeded" only of an RFQ that was sent.
SucceededTasksAreSent ==
  (\E t \in Tasks : task[t] = "succeeded") => rfq.status \in {"sent", "responded"}

\* A delivery that was queued or claimed comes to an end.
DeliveryEnds == rfq.status \in {"queued", "sending"} ~> rfq.status \notin {"queued", "sending"}

-----------------------------------------------------------------------------
(* What the component promises to the supplier *)

Decision ==
  CASE rfq.status \in {"draft", "pending_review"} -> "drafting"
    [] rfq.status = "cancelled" -> "withdrawn"
    [] OTHER -> "approved"

\* The mail server is known to have accepted the RFQ.
Settled == rfq.status \in {"sent", "responded"}

Once == INSTANCE SendOnce
          WITH decision <- Decision, version <- rfq.version,
               received <- accepted, settled <- Settled

\* With a mail server whose errors mean what the adapter makes of them, the
\* rows, tasks, workers and messages implement: approved, then sent once.
ImplementsSendOnce == Once!Spec

-----------------------------------------------------------------------------
(* Statements of the documentation that the code does not keep *)

\* "no se reenvia automaticamente porque hacerlo podria duplicar una
\* solicitud", "can be retried safely": nothing is accepted twice.
AcceptedOnce == Len(accepted) <= 1
=============================================================================
