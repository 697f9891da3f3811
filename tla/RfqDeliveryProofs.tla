------------------------- MODULE RfqDeliveryProofs -------------------------
(***************************************************************************)
(* Theorems about RfqDelivery, for any tasks, workers, faults and bounds.  *)
(***************************************************************************)
EXTENDS RfqDelivery, SequenceTheorems, TLAPS

-----------------------------------------------------------------------------
(* The inductive invariant *)

\* The key of the sends is that of the version in force, from the approval on.
KeyInv ==
  /\ rfq.key \in {0, rfq.version}
  /\ rfq.status \in Editable => rfq.key = 0
  /\ rfq.status \notin Editable \cup {"cancelled"} => rfq.key = rfq.version

\* There is at most one attempt: it carries the approved version, and what its
\* status may be follows from that of the RFQ.
AttemptInv ==
  /\ Len(emails) <= 1
  /\ ~rfq.contact => rfq.status # "retry_pending"
  /\ rfq.status = "sending" => emails # <<>> /\ emails[1].status = "sending"
  /\ rfq.status \in {"sent", "responded"} => emails # <<>> /\ emails[1].status = "sent"
  /\ emails # <<>> =>
       /\ emails[1].version = rfq.version
       /\ emails[1].key = rfq.key
       /\ rfq.key = rfq.version
       /\ rfq.contact => emails[1].to = "contact"
       /\ rfq.status \notin Editable \cup {"approved"}
       /\ rfq.status \in {"queued", "retry_pending"} => rfq.contact
       /\ emails[1].status = "sending" => rfq.status = "sending"
       /\ emails[1].status = "sent" => rfq.status \in {"sent", "responded"}
       /\ emails[1].error = "ambiguous" => rfq.status \in {"failed", "cancelled"}

\* A worker between the two transactions of a send is the only one.
ClaimInv ==
  \A w \in Claims :
    /\ \A v \in Claims : v = w
    /\ rfq.status = "sending"
    /\ worker[w].email = 1

\* Successful tasks belong to sent RFQs.
TaskInv == (\E t \in Tasks : task[t] = "succeeded") => rfq.status \in {"sent", "responded"}

\* Celery retries a message only while it has retries left.
RetryInv == \A w \in Workers : worker[w].at = "retrying" => worker[w].message.retry < MaxRetries

IInv == TypeOK /\ KeyInv /\ AttemptInv /\ ClaimInv /\ TaskInv /\ RetryInv

\* While no answer of the mail server is misread, what it accepted is known:
\* nothing until the claim in force was answered, and then what was recorded.
AcceptedInv ==
  /\ accepted \in {<<>>, <<rfq.version>>}
  /\ accepted # <<>> =>
       \/ rfq.status \in {"sending", "sent", "responded"}
       \/ emails # <<>> /\ emails[1].error = "ambiguous"
  /\ rfq.status \in {"sent", "responded"} => accepted # <<>>
  /\ \A w \in Claims :
       /\ worker[w].at = "sending" => accepted = <<>>
       /\ worker[w].at = "answered" /\ worker[w].error \in {"retryable", "permanent"} => accepted = <<>>
       /\ worker[w].at = "answered" /\ worker[w].error = "none" => accepted # <<>>

-----------------------------------------------------------------------------
(* Facts about the rows *)

\* The bounds as the provers use them.
LEMMA Bounds ==
  /\ MaxVersion \in Nat \ {0} /\ MaxRetries \in Nat
  /\ 0 \in 0..MaxVersion /\ 0 \in 0..MaxRetries
  /\ \A v \in 1..MaxVersion : v \in 0..MaxVersion /\ v \in Nat /\ v # 0
BY BoundsAssumption

\* What is known of the columns of the RFQ.
LEMMA RfqColumns ==
  ASSUME IInv
  PROVE  /\ rfq \in Rfq
         /\ rfq.contact \in BOOLEAN /\ rfq.status \in RfqStatus /\ rfq.to \in Recipients
         /\ rfq.version \in 1..MaxVersion /\ rfq.version \in 0..MaxVersion /\ rfq.version # 0
         /\ rfq.key \in 0..MaxVersion
BY Bounds DEF IInv, TypeOK, Rfq

\* The first attempt, if there is one, is a row.
LEMMA FirstAttempt ==
  ASSUME emails \in Seq(Email), emails # <<>>
  PROVE  1 \in DOMAIN emails /\ 1 \in 1..Len(emails) /\ emails[1] \in Email
<1>1. Len(emails) \in Nat /\ Len(emails) # 0 /\ DOMAIN emails = 1..Len(emails)
  BY EmptySeq, LenProperties
<1> QED  BY <1>1, ElementOfSeq

\* Rewriting the first attempt keeps it the first.
LEMMA AttemptRewritten ==
  ASSUME emails \in Seq(Email), emails # <<>>, NEW e \in Email,
         emails' = [emails EXCEPT ![1] = e]
  PROVE  /\ emails' \in Seq(Email) /\ emails' # <<>>
         /\ Len(emails') = Len(emails) /\ emails'[1] = e
<1>1. 1 \in 1..Len(emails) /\ Len(emails) \in Nat
  BY FirstAttempt, LenProperties
<1>2. emails' \in Seq(Email) /\ Len(emails') = Len(emails) /\ emails'[1] = e
  BY <1>1, ExceptSeq
<1> QED  BY <1>1, <1>2, EmptySeq

\* The outcomes of a send are those of the adapter.
LEMMA OutcomesTyped == \A o \in Outcomes : o.accepted \in BOOLEAN /\ o.error \in Errors
<1>1. ASSUME NEW o \in Outcomes PROVE o.accepted \in BOOLEAN /\ o.error \in Errors
  <2>1. CASE o = [accepted |-> TRUE, error |-> "none"]
    BY <2>1 DEF Errors
  <2>2. CASE o \in [accepted : {FALSE}, error : {"retryable", "permanent"}]
    BY <2>2 DEF Errors
  <2>3. CASE o \in [accepted : BOOLEAN, error : {"ambiguous"}]
    BY <2>3 DEF Errors
  <2>4. CASE o \in [accepted : {TRUE}, error : {"retryable", "permanent"}]
    BY <2>4 DEF Errors
  <2> QED  BY <2>1, <2>2, <2>3, <2>4 DEF Outcomes
<1> QED  BY <1>1

\* A worker that may record a result owns the only attempt.
LEMMA OwnerHoldsAttempt ==
  ASSUME IInv, NEW w \in Workers, OwnsAttempt(w)
  PROVE  /\ w \in Claims /\ worker[w].email = 1 /\ emails # <<>>
         /\ emails[1] \in Email /\ emails[1].status = "sending"
         /\ rfq.status = "sending" /\ worker[w].message \in Message
         /\ worker[w].error \in Errors /\ \A v \in Claims : v = w
<1>1. w \in Claims /\ worker[w].email = 1 /\ emails # <<>> /\ emails[1].status = "sending"
  BY DEF IInv, ClaimInv, AttemptInv, Claims, OwnsAttempt
<1> QED  BY <1>1, FirstAttempt DEF IInv, TypeOK, ClaimInv, Claims, Work

\* What StartSending does to the attempts: there is one, of the approved
\* version, and it is the caller's; no other worker is between transactions.
LEMMA AttemptStarted ==
  ASSUME IInv, NEW w \in Workers, NEW m \in broker, StartSending(w, m)
  PROVE  /\ Attempt = 1 /\ Claims = {}
         /\ rfq.status \in {"queued", "retry_pending"} /\ rfq.key = rfq.version
         /\ emails' \in Seq(Email) /\ emails' # <<>> /\ Len(emails') = 1
         /\ emails'[1].status = "sending" /\ emails'[1].error = "none"
         /\ emails'[1].version = rfq.version /\ emails'[1].key = rfq.key
         /\ rfq.contact => emails'[1].to = "contact"
         /\ emails # <<>> => emails[1].error # "ambiguous"
<1>1. rfq.status \in {"queued", "retry_pending"}
  BY DEF StartSending, MayStart
<1>2. rfq.key = rfq.version /\ Claims = {}
  BY <1>1 DEF IInv, KeyInv, Editable, ClaimInv
<1>3. rfq.contact => rfq.to = "contact"
  BY DEF StartSending, MayStart, ValidSend
<1>4. CASE emails = <<>>
  <2>1. Existing = {} /\ Len(emails) = 0 /\ DOMAIN emails = {}
    BY <1>4 DEF Existing
  <2>2. Attempt = 1 /\ Attempt \notin DOMAIN emails
    BY <2>1 DEF Attempt
  <2>3. emails' = <<NewEmail>>
    BY <1>4, <2>2 DEF StartSending
  <2>4. NewEmail \in Email
    BY <1>2, RfqColumns DEF NewEmail, Email, EmailStatus, Errors
  <2> QED  BY <1>1, <1>2, <1>3, <1>4, <2>2, <2>3, <2>4 DEF NewEmail
<1>5. CASE emails # <<>>
  <2>a. /\ emails \in Seq(Email) /\ Len(emails) <= 1 /\ Len(emails) \in Nat
        /\ DOMAIN emails = 1..Len(emails) /\ 1 \in 1..Len(emails) /\ emails[1] \in Email
    BY <1>5, FirstAttempt, LenProperties DEF IInv, TypeOK, AttemptInv
  <2>1. emails[1] \in Email /\ 1 \in DOMAIN emails /\ DOMAIN emails = {1} /\ Len(emails) = 1
    BY <2>a
  <2>2. /\ emails[1].version = rfq.version /\ emails[1].key = rfq.key
        /\ rfq.contact /\ emails[1].to = "contact"
    BY <1>1, <1>5 DEF IInv, AttemptInv
  <2>3. Existing = {1} /\ Attempt = 1
    BY <2>1, <2>2 DEF Existing, Attempt
  <2>4. emails' = [emails EXCEPT ![1] = [emails[1] EXCEPT !.status = "sending", !.error = "none"]]
    BY <2>1, <2>3 DEF StartSending
  <2>5. [emails[1] EXCEPT !.status = "sending", !.error = "none"] \in Email
    BY <2>1 DEF Email, EmailStatus, Errors
  <2>6. /\ emails' \in Seq(Email) /\ emails' # <<>> /\ Len(emails') = Len(emails)
        /\ emails'[1] = [emails[1] EXCEPT !.status = "sending", !.error = "none"]
    BY <1>5, <2>4, <2>5, AttemptRewritten DEF IInv, TypeOK
  <2>7. emails[1].error # "ambiguous"
    BY <2>2, <2>3 DEF StartSending, MayStart, IsAmbiguous
  <2> QED  BY <1>1, <1>2, <2>1, <2>2, <2>3, <2>6, <2>7 DEF Email
<1> QED  BY <1>4, <1>5

-----------------------------------------------------------------------------
(* Every step keeps the invariant *)

\* Initially.
LEMMA InitInv == Init => IInv
<1> SUFFICES ASSUME Init PROVE IInv
  OBVIOUS
<1>0. 1 \in 1..MaxVersion /\ 0 \in 0..MaxVersion
  BY Bounds
<1>1. rfq \in Rfq
  <2>1. GeneratedForContact \in Rfq
    BY <1>0 DEF GeneratedForContact, Rfq, RfqStatus, Recipients
  <2>2. \A to \in {"none", "other"} : GeneratedForTender(to) \in Rfq
    BY <1>0 DEF GeneratedForTender, Rfq, RfqStatus, Recipients
  <2> QED  BY <2>1, <2>2 DEF Init
<1>2. TypeOK
  BY <1>1 DEF Init, TypeOK, TaskStatus, Work, Idle, Errors
<1>3. KeyInv /\ AttemptInv
  BY DEF Init, GeneratedForContact, GeneratedForTender, KeyInv, AttemptInv, Editable
<1>4. ClaimInv /\ TaskInv /\ RetryInv
  BY DEF Init, ClaimInv, Claims, Idle, TaskInv, RetryInv
<1> QED  BY <1>2, <1>3, <1>4 DEF IInv

\* Drafting and review write the RFQ row only.
LEMMA ReviewKeepsInv ==
  ASSUME IInv,
         UNCHANGED <<emails, task, request, broker, worker, checks, accepted, crashes>>,
         rfq' \in Rfq, rfq'.contact = rfq.contact,
         rfq.status \in Editable \cup {"cancelled"} => rfq'.status \in Editable \cup {"approved", "cancelled"},
         rfq'.status \in Editable => rfq.status \in Editable /\ rfq'.key = 0,
         rfq'.status = "approved" => rfq.status \in Editable /\ rfq'.key = rfq'.version,
         rfq'.status \in Editable \cup {"approved", "cancelled"},
         rfq'.status = "cancelled" => /\ rfq.status \notin {"sending", "sent", "responded"}
                                      /\ rfq'.key = rfq.key /\ rfq'.version = rfq.version
  PROVE  IInv'
<1>1. TypeOK'
  BY DEF IInv, TypeOK
<1>2. KeyInv'
  BY DEF IInv, KeyInv, Editable
<1>3. rfq.status \notin {"sending", "sent", "responded"}
  BY DEF Editable
<1>4. AttemptInv'
  BY <1>3 DEF IInv, KeyInv, AttemptInv, Editable
<1>5. Claims = {} /\ Claims' = {}
  BY <1>3 DEF IInv, ClaimInv, Claims
<1>6. ClaimInv' /\ TaskInv' /\ RetryInv'
  BY <1>3, <1>5 DEF IInv, ClaimInv, TaskInv, RetryInv
<1> QED  BY <1>1, <1>2, <1>4, <1>6 DEF IInv

LEMMA EditKeepsInv ==
  ASSUME IInv, NEW n \in {1, 2}, NEW to \in Recipients, Edited(n, to),
         UNCHANGED <<Delivery, Outside>>
  PROVE  IInv'
<1>1. rfq.version + n \in 1..MaxVersion
  BY RfqColumns, Bounds DEF Edited
<1>2. /\ rfq' \in Rfq /\ rfq'.contact = rfq.contact
      /\ rfq'.status = "draft" /\ rfq'.key = 0 /\ rfq.status \in Editable
  BY <1>1, RfqColumns, Bounds DEF Edited, Rfq, RfqStatus
<1> QED  BY <1>2, ReviewKeepsInv DEF Editable, Delivery, Outside

LEMMA DraftingKeepsInv ==
  ASSUME IInv,
         UpdateRfqWorkflow \/ UpdateRfq \/ SubmitRfqForReview \/ RejectRfq \/ ApproveRfq \/ CancelRfq
  PROVE  IInv'
<1>1. CASE UpdateRfqWorkflow
  BY <1>1, EditKeepsInv, RfqColumns DEF UpdateRfqWorkflow
<1>2. CASE UpdateRfq
  BY <1>2, EditKeepsInv DEF UpdateRfq, Recipients
<1>3. CASE SubmitRfqForReview
  <2>1. rfq' = [rfq EXCEPT !.status = "pending_review"] /\ rfq.status = "draft" /\ rfq.key = 0
    BY <1>3 DEF SubmitRfqForReview, IInv, KeyInv, Editable
  <2>2. rfq' \in Rfq /\ rfq'.contact = rfq.contact /\ rfq'.status = "pending_review" /\ rfq'.key = 0
    BY <2>1, RfqColumns DEF Rfq, RfqStatus
  <2> QED  BY <1>3, <2>1, <2>2, ReviewKeepsInv DEF SubmitRfqForReview, Editable, Delivery, Outside
<1>4. CASE RejectRfq
  <2>1. rfq' = [rfq EXCEPT !.status = "draft", !.key = 0] /\ rfq.status = "pending_review"
    BY <1>4 DEF RejectRfq
  <2>2. rfq' \in Rfq /\ rfq'.contact = rfq.contact /\ rfq'.status = "draft" /\ rfq'.key = 0
    BY <2>1, RfqColumns, Bounds DEF Rfq, RfqStatus
  <2> QED  BY <1>4, <2>1, <2>2, ReviewKeepsInv DEF RejectRfq, Editable, Delivery, Outside
<1>5. CASE ApproveRfq
  <2>1. rfq' = [rfq EXCEPT !.status = "approved", !.key = rfq.version] /\ rfq.status = "pending_review"
    BY <1>5 DEF ApproveRfq
  <2>2. /\ rfq' \in Rfq /\ rfq'.contact = rfq.contact /\ rfq'.status = "approved"
        /\ rfq'.key = rfq'.version
    BY <2>1, RfqColumns DEF Rfq, RfqStatus
  <2> QED  BY <1>5, <2>1, <2>2, ReviewKeepsInv DEF ApproveRfq, Editable, Delivery, Outside
<1>6. CASE CancelRfq
  <2>1. rfq' = [rfq EXCEPT !.status = "cancelled"] /\ rfq.status \notin {"sending", "sent", "responded"}
    BY <1>6, RfqColumns DEF CancelRfq, RfqStatus, Transitions
  <2>2. /\ rfq' \in Rfq /\ rfq'.contact = rfq.contact /\ rfq'.status = "cancelled"
        /\ rfq'.key = rfq.key /\ rfq'.version = rfq.version
    BY <2>1, RfqColumns DEF Rfq, RfqStatus
  <2> QED  BY <1>6, <2>1, <2>2, ReviewKeepsInv DEF CancelRfq, Editable, Delivery, Outside
<1> QED  BY <1>1, <1>2, <1>3, <1>4, <1>5, <1>6

\* Send and retry requests queue the RFQ, and touch nothing a worker owns.
LEMMA QueueingKeepsInv ==
  ASSUME IInv, NEW t \in Tasks,
         QueueRfq(t) \/ QueueRfqSend(t) \/ RetryFailedRfq(t)
  PROVE  IInv'
<1>1. /\ rfq' = [rfq EXCEPT !.status = "queued"]
      /\ request' \in [Tasks -> {"none", "queue", "retry", "unavailable", "done"}]
      /\ UNCHANGED <<emails, broker, worker, checks, accepted, crashes>>
  BY DEF QueueRfq, QueueRfqSend, RetryFailedRfq, Requested, Outside, IInv, TypeOK
<1>2. task' \in [Tasks -> TaskStatus] /\ \A u \in Tasks : task'[u] = "succeeded" => task[u] = "succeeded"
  BY DEF QueueRfq, QueueRfqSend, RetryFailedRfq, IInv, TypeOK, TaskStatus
<1>3. /\ rfq.status \in {"approved", "failed", "retry_pending"}
      /\ rfq.status \in {"failed", "retry_pending"} => rfq.contact
      /\ rfq.status \in {"failed", "retry_pending"} /\ emails # <<>> => ~IsAmbiguous(LastAttempt)
  <2>1. CASE QueueRfq(t)
    BY <2>1 DEF QueueRfq
  <2>2. CASE QueueRfqSend(t)
    <3>1. rfq.status \in {"approved", "retry_pending"}
      BY <2>2, RfqColumns DEF QueueRfqSend, RfqStatus, Transitions
    <3>2. rfq.status # "retry_pending"
      BY <2>2 DEF QueueRfqSend, IInv, AttemptInv
    <3> QED  BY <3>1, <3>2
  <2>3. CASE RetryFailedRfq(t)
    BY <2>3 DEF RetryFailedRfq, ValidSend
  <2> QED  BY <2>1, <2>2, <2>3
<1>4. /\ rfq' \in Rfq /\ rfq'.status = "queued" /\ rfq'.contact = rfq.contact
      /\ rfq'.version = rfq.version /\ rfq'.key = rfq.key
  BY <1>1, RfqColumns DEF Rfq, RfqStatus
<1>5. TypeOK'
  BY <1>1, <1>2, <1>4 DEF IInv, TypeOK
<1>6. KeyInv'
  BY <1>3, <1>4 DEF IInv, KeyInv, Editable
<1>7. emails # <<>> => LastAttempt = emails[1]
  BY LenProperties, FirstAttempt DEF LastAttempt, IInv, TypeOK, AttemptInv
<1>8. emails # <<>> => emails[1].error # "ambiguous" /\ rfq.contact
  BY <1>3, <1>7 DEF IsAmbiguous, IInv, AttemptInv
<1>9. AttemptInv'
  BY <1>1, <1>3, <1>4, <1>8 DEF IInv, AttemptInv, Editable
<1>10. ClaimInv' /\ TaskInv' /\ RetryInv'
  BY <1>1, <1>2, <1>3 DEF IInv, ClaimInv, Claims, TaskInv, RetryInv
<1> QED  BY <1>5, <1>6, <1>9, <1>10 DEF IInv

\* Publishing, or failing to, only ever fails an RFQ that is still queued.
LEMMA PublishingKeepsInv ==
  ASSUME IInv, NEW t \in Tasks, PublishStep(t) \/ RequestDies(t)
  PROVE  IInv'
<1>1. PublishedBy(t) \in Message
  BY Bounds DEF PublishedBy, Message
<1>2. /\ UNCHANGED <<emails, worker, checks, accepted>>
      /\ request' \in [Tasks -> {"none", "queue", "retry", "unavailable", "done"}]
      /\ broker' \subseteq Message
      /\ crashes' \in Nat
  BY <1>1 DEF PublishStep, Publish, PublishRaises, QueueUnavailable, RequestDies,
              Outside, IInv, TypeOK
<1>3. task' \in [Tasks -> TaskStatus] /\ \A u \in Tasks : task'[u] = "succeeded" => task[u] = "succeeded"
  <2>1. task' = task \/ task' = [task EXCEPT ![t] = "failed"]
    BY DEF PublishStep, Publish, PublishRaises, QueueUnavailable, RequestDies
  <2> QED  BY <2>1 DEF IInv, TypeOK, TaskStatus
<1>4. rfq' = rfq \/ (rfq.status = "queued" /\ rfq' = [rfq EXCEPT !.status = "failed"])
  BY RfqColumns DEF Rfq, PublishStep, Publish, PublishRaises, QueueUnavailable, RequestDies
<1>5. CASE rfq' = rfq
  BY <1>2, <1>3, <1>5 DEF IInv, TypeOK, KeyInv, AttemptInv, ClaimInv, Claims, TaskInv, RetryInv
<1>6. CASE rfq.status = "queued" /\ rfq' = [rfq EXCEPT !.status = "failed"]
  <2>1. /\ rfq' \in Rfq /\ rfq'.status = "failed" /\ rfq'.contact = rfq.contact
        /\ rfq'.version = rfq.version /\ rfq'.key = rfq.key
    BY <1>6, RfqColumns DEF Rfq, RfqStatus
  <2>2. TypeOK' /\ KeyInv'
    BY <1>2, <1>3, <1>6, <2>1 DEF IInv, TypeOK, KeyInv, Editable
  <2>3. AttemptInv'
    BY <1>2, <1>6, <2>1 DEF IInv, AttemptInv, Editable
  <2>4. ClaimInv' /\ TaskInv' /\ RetryInv'
    BY <1>2, <1>3, <1>6, <2>1 DEF IInv, ClaimInv, Claims, TaskInv, RetryInv
  <2> QED  BY <2>2, <2>3, <2>4 DEF IInv
<1> QED  BY <1>4, <1>5, <1>6

\* A worker takes a message.
LEMMA ReceivingKeepsInv ==
  ASSUME IInv, NEW w \in Workers, NEW m \in broker,
         StartSending(w, m) \/ FindSent(w, m) \/ LeaveAlone(w, m)
  PROVE  IInv'
<1>0. m \in Message /\ m.task \in Tasks /\ Returned(m) \in Work /\ Returned(m).at = "returned"
      /\ Returned(m).message = m /\ UNCHANGED <<request, broker, checks, accepted, crashes>>
  BY DEF IInv, TypeOK, Message, Returned, Work, Idle, Errors, StartSending, FindSent, LeaveAlone, Outside
<1>1. CASE StartSending(w, m)
  <2>1. /\ rfq' = [rfq EXCEPT !.status = "sending"]
        /\ worker' = [worker EXCEPT ![w] =
             [at |-> "sending", message |-> m, email |-> 1, error |-> "none"]]
    BY <1>1, AttemptStarted DEF StartSending
  <2>2. [at |-> "sending", message |-> m, email |-> 1, error |-> "none"] \in Work
    BY <1>0 DEF Work, Errors
  <2>3. /\ rfq' \in Rfq /\ rfq'.status = "sending" /\ rfq'.contact = rfq.contact
        /\ rfq'.version = rfq.version /\ rfq'.key = rfq.key
    BY <2>1, RfqColumns DEF Rfq, RfqStatus
  <2>4. task' \in [Tasks -> TaskStatus] /\ \A u \in Tasks : task'[u] = "succeeded" => task[u] = "succeeded"
    BY <1>0, <1>1 DEF StartSending, IInv, TypeOK, TaskStatus
  <2>5. worker' \in [Workers -> Work] /\ \A v \in Workers : worker'[v].at # "idle" => worker'[v].message \in Message
    BY <1>0, <2>1, <2>2 DEF IInv, TypeOK
  <2>6. TypeOK'
    BY <1>0, <1>1, <2>3, <2>4, <2>5, AttemptStarted DEF IInv, TypeOK
  <2>a. KeyInv'
    BY <1>1, <2>3, AttemptStarted DEF KeyInv, Editable
  <2>b. AttemptInv'
    <3>1. /\ Len(emails') = 1 /\ emails'[1].status = "sending" /\ emails'[1].error = "none"
          /\ emails'[1].version = rfq'.version /\ emails'[1].key = rfq'.key
          /\ rfq'.key = rfq'.version /\ emails' # <<>>
          /\ rfq'.contact => emails'[1].to = "contact"
      BY <1>1, <2>3, AttemptStarted
    <3> QED  BY <2>3, <3>1 DEF AttemptInv, Editable
  <2>7. KeyInv' /\ AttemptInv'
    BY <2>a, <2>b
  <2>8. Claims' = {w} /\ worker'[w].email = 1
    BY <1>1, <2>1, AttemptStarted DEF Claims, IInv, TypeOK
  <2>9. ClaimInv' /\ TaskInv' /\ RetryInv'
    BY <1>1, <2>1, <2>3, <2>4, <2>8, AttemptStarted DEF IInv, TypeOK, ClaimInv, TaskInv, RetryInv
  <2> QED  BY <2>6, <2>7, <2>9 DEF IInv
<1>2. CASE FindSent(w, m) \/ LeaveAlone(w, m)
  <2>1. worker' = [worker EXCEPT ![w] = Returned(m)] /\ UNCHANGED <<rfq, emails>>
    BY <1>2 DEF FindSent, LeaveAlone
  <2>2. /\ task' \in [Tasks -> TaskStatus]
        /\ \A u \in Tasks : task'[u] = "succeeded" =>
             task[u] = "succeeded" \/ \E i \in DOMAIN emails : emails[i].status = "sent"
    BY <1>0, <1>2 DEF FindSent, LeaveAlone, AlreadySent, Existing, IInv, TypeOK, TaskStatus
  <2>3. (\E i \in DOMAIN emails : emails[i].status = "sent") => rfq.status \in {"sent", "responded"}
    BY LenProperties DEF IInv, TypeOK, AttemptInv
  <2>4. TypeOK'
    BY <1>0, <2>1, <2>2 DEF IInv, TypeOK
  <2>5. KeyInv' /\ AttemptInv' /\ TaskInv'
    BY <2>1, <2>2, <2>3 DEF IInv, KeyInv, AttemptInv, TaskInv
  <2>6. ClaimInv' /\ RetryInv'
    BY <1>0, <2>1 DEF IInv, TypeOK, ClaimInv, Claims, RetryInv
  <2> QED  BY <2>4, <2>5, <2>6 DEF IInv
<1> QED  BY <1>1, <1>2

\* The answer of the mail server.
LEMMA AnswerKeepsInv ==
  ASSUME IInv, NEW w \in Workers, MailServerAnswers(w)
  PROVE  IInv'
<1>1. w \in Claims /\ worker[w].email = 1 /\ emails # <<>> /\ worker[w] \in Work
      /\ worker[w].message \in Message
  BY DEF MailServerAnswers, IInv, TypeOK, ClaimInv, Claims, AttemptInv
<1>2. emails[1].version \in 1..MaxVersion
  BY <1>1, FirstAttempt DEF IInv, TypeOK, Email
<1>3. PICK o \in Outcomes :
        /\ worker' = [worker EXCEPT ![w].at = "answered", ![w].error = o.error]
        /\ accepted' = IF o.accepted THEN Append(accepted, emails[1].version) ELSE accepted
  BY <1>1 DEF MailServerAnswers
<1>4. [worker[w] EXCEPT !.at = "answered", !.error = o.error] \in Work
  BY <1>1, OutcomesTyped DEF Work
<1>5. worker' = [worker EXCEPT ![w] = [worker[w] EXCEPT !.at = "answered", !.error = o.error]]
  BY <1>3
<1>6. worker' \in [Workers -> Work] /\ \A v \in Workers : worker'[v].at # "idle" => worker'[v].message \in Message
  BY <1>1, <1>4, <1>5 DEF IInv, TypeOK, Work
<1>7. accepted' \in Seq(1..MaxVersion)
  <2>1. accepted \in Seq(1..MaxVersion)
    BY DEF IInv, TypeOK
  <2>2. Append(accepted, emails[1].version) \in Seq(1..MaxVersion)
    BY <1>2, <2>1, AppendProperties
  <2> QED  BY <1>3, <2>1, <2>2
<1>8. UNCHANGED <<rfq, emails, task, request, broker, checks, crashes>>
  BY DEF MailServerAnswers
<1>9. TypeOK'
  BY <1>6, <1>7, <1>8 DEF IInv, TypeOK
<1>10. KeyInv' /\ AttemptInv' /\ TaskInv'
  BY <1>8 DEF IInv, KeyInv, AttemptInv, TaskInv
<1>11. Claims' = Claims
  BY <1>1, <1>5 DEF Claims, IInv, TypeOK, Work
<1>12. ClaimInv' /\ RetryInv'
  BY <1>1, <1>5, <1>8, <1>11 DEF IInv, TypeOK, ClaimInv, RetryInv, Work
<1> QED  BY <1>9, <1>10, <1>12 DEF IInv

\* The result is written by the worker that owns the attempt.
LEMMA RecordingKeepsInv ==
  ASSUME IInv, NEW w \in Workers, RecordSent(w) \/ RecordFailure(w)
  PROVE  IInv'
<1>1. OwnsAttempt(w)
  BY DEF RecordSent, RecordFailure
<1>2. /\ w \in Claims /\ worker[w].email = 1 /\ emails # <<>> /\ emails[1] \in Email
      /\ rfq.status = "sending" /\ worker[w].message \in Message /\ worker[w].error \in Errors
      /\ \A v \in Claims : v = w
  BY <1>1, OwnerHoldsAttempt
<1>3. worker[w].message.task \in Tasks /\ UNCHANGED <<request, broker, checks, accepted, crashes>>
  BY <1>2 DEF Message, RecordSent, RecordFailure, Outside
<1>4. CASE RecordSent(w)
  <2>1. emails' = [emails EXCEPT ![1] = [emails[1] EXCEPT !.status = "sent"]]
    BY <1>2, <1>4 DEF RecordSent
  <2>2. [emails[1] EXCEPT !.status = "sent"] \in Email
    BY <1>2 DEF Email, EmailStatus
  <2>3. /\ emails' \in Seq(Email) /\ emails' # <<>> /\ Len(emails') = Len(emails)
        /\ emails'[1] = [emails[1] EXCEPT !.status = "sent"]
    BY <1>2, <2>1, <2>2, AttemptRewritten DEF IInv, TypeOK
  <2>4. rfq' = [rfq EXCEPT !.status = "sent"]
    BY <1>4 DEF RecordSent
  <2>5. /\ rfq' \in Rfq /\ rfq'.status = "sent" /\ rfq'.contact = rfq.contact
        /\ rfq'.version = rfq.version /\ rfq'.key = rfq.key
    BY <2>4, RfqColumns DEF Rfq, RfqStatus
  <2>6. task' \in [Tasks -> TaskStatus]
    BY <1>3, <1>4 DEF RecordSent, TaskOf, IInv, TypeOK, TaskStatus
  <2>7. /\ worker' = [worker EXCEPT ![w] = Returned(worker[w].message)]
        /\ Returned(worker[w].message) \in Work
        /\ Returned(worker[w].message).at = "returned"
        /\ Returned(worker[w].message).message = worker[w].message
    BY <1>2, <1>4 DEF RecordSent, Returned, Work, Idle, Errors
  <2>8. TypeOK'
    BY <1>2, <1>3, <2>3, <2>5, <2>6, <2>7 DEF IInv, TypeOK
  <2>9. KeyInv'
    BY <1>2, <2>5 DEF IInv, KeyInv, Editable
  <2>10. emails[1].error # "ambiguous"
    BY <1>2 DEF IInv, AttemptInv
  <2>11. AttemptInv'
    BY <1>2, <2>3, <2>5, <2>10 DEF IInv, AttemptInv, Email, Editable
  <2>12. Claims' = {}
    BY <1>2, <2>7 DEF Claims, IInv, TypeOK
  <2>13. ClaimInv' /\ TaskInv' /\ RetryInv'
    BY <2>5, <2>7, <2>12 DEF IInv, TypeOK, ClaimInv, TaskInv, RetryInv
  <2> QED  BY <2>8, <2>9, <2>11, <2>13 DEF IInv
<1>5. CASE RecordFailure(w)
  <2> DEFINE error == worker[w].error
             status == StatusAfterFailure(rfq.contact, error)
             at == IF error = "retryable" /\ worker[w].message.retry < MaxRetries
                     THEN "retrying" ELSE "returned"
  <2>0. emails' = [emails EXCEPT ![1].status = "failed", ![1].error = error]
    BY <1>2, <1>5 DEF RecordFailure
  <2>1. emails' = [emails EXCEPT ![1] = [emails[1] EXCEPT !.status = "failed", !.error = error]]
    BY <1>2, <2>0, FirstAttempt DEF IInv, TypeOK
  <2>2. [emails[1] EXCEPT !.status = "failed", !.error = error] \in Email
    BY <1>2 DEF Email, EmailStatus
  <2>3. /\ emails' \in Seq(Email) /\ emails' # <<>> /\ Len(emails') = Len(emails)
        /\ emails'[1] = [emails[1] EXCEPT !.status = "failed", !.error = error]
    BY <1>2, <2>1, <2>2, AttemptRewritten DEF IInv, TypeOK
  <2>4. rfq' = [rfq EXCEPT !.status = status]
    BY <1>5 DEF RecordFailure
  <2>5. /\ status \in {"failed", "retry_pending"}
        /\ status = "retry_pending" => rfq.contact /\ error = "retryable"
    BY DEF StatusAfterFailure
  <2>6. /\ rfq' \in Rfq /\ rfq'.status = status /\ rfq'.contact = rfq.contact
        /\ rfq'.version = rfq.version /\ rfq'.key = rfq.key
    BY <2>4, <2>5, RfqColumns DEF Rfq, RfqStatus
  <2>7. task' \in [Tasks -> TaskStatus] /\ \A u \in Tasks : task'[u] = "succeeded" => task[u] = "succeeded"
    BY <1>3, <1>5 DEF RecordFailure, TaskOf, IInv, TypeOK, TaskStatus
  <2>8. worker' = [worker EXCEPT ![w] = [Returned(worker[w].message) EXCEPT !.at = at]]
    BY <1>5 DEF RecordFailure
  <2>9. /\ [Returned(worker[w].message) EXCEPT !.at = at] \in Work
        /\ [Returned(worker[w].message) EXCEPT !.at = at].at = at
        /\ [Returned(worker[w].message) EXCEPT !.at = at].message = worker[w].message
    BY <1>2 DEF Returned, Work, Idle, Errors
  <2>10. TypeOK'
    BY <1>2, <1>3, <2>3, <2>6, <2>7, <2>8, <2>9 DEF IInv, TypeOK
  <2>11. KeyInv'
    BY <1>2, <2>5, <2>6 DEF IInv, KeyInv, Editable
  <2>12. emails'[1].error = error /\ emails'[1].status = "failed" /\ emails'[1].key = emails[1].key
         /\ emails'[1].version = emails[1].version /\ emails'[1].to = emails[1].to
    BY <1>2, <2>3 DEF Email
  <2>13. AttemptInv'
    BY <1>2, <2>3, <2>5, <2>6, <2>12 DEF IInv, AttemptInv, Editable
  <2>14. Claims' = {}
    BY <1>2, <2>8, <2>9 DEF Claims, IInv, TypeOK
  <2>15. RetryInv'
    BY <2>8, <2>9 DEF IInv, TypeOK, RetryInv
  <2>16. ClaimInv' /\ TaskInv'
    BY <1>2, <2>7, <2>14 DEF IInv, ClaimInv, TaskInv
  <2> QED  BY <2>10, <2>11, <2>13, <2>15, <2>16 DEF IInv
<1> QED  BY <1>4, <1>5

\* Retries, acknowledgements and deaths move messages and free workers.
LEMMA BrokerKeepsInv ==
  ASSUME IInv, NEW w \in Workers, PublishRetry(w) \/ Acknowledge(w) \/ WorkerDies(w)
  PROVE  IInv'
<1>1. UNCHANGED <<rfq, emails, task, request, checks, accepted>> /\ crashes' \in Nat
  BY DEF PublishRetry, Acknowledge, WorkerDies, Outside, IInv, TypeOK
<1>2. Idle \in Work /\ Idle.at = "idle"
  BY DEF Idle, Work, Errors
<1>3. worker[w] \in Work
  BY DEF IInv, TypeOK
<1>4. PICK j \in Work : /\ worker' = [worker EXCEPT ![w] = j]
                        /\ j.at \in {"idle", "returned"}
                        /\ j.at # "idle" => j.message \in Message
  <2>1. CASE PublishRetry(w)
    <3>1. worker' = [worker EXCEPT ![w] = [worker[w] EXCEPT !.at = "returned"]]
      BY <2>1 DEF PublishRetry
    <3>2. /\ [worker[w] EXCEPT !.at = "returned"] \in Work
          /\ [worker[w] EXCEPT !.at = "returned"].at = "returned"
          /\ [worker[w] EXCEPT !.at = "returned"].message = worker[w].message
      BY <1>3 DEF Work
    <3>3. worker[w].message \in Message
      BY <2>1 DEF PublishRetry, IInv, TypeOK
    <3> QED  BY <3>1, <3>2, <3>3
  <2>2. CASE Acknowledge(w) \/ WorkerDies(w)
    BY <1>2, <2>2 DEF Acknowledge, WorkerDies
  <2> QED  BY <2>1, <2>2
<1>5. broker' \subseteq Message
  <2>1. CASE PublishRetry(w)
    <3>1. worker[w].message \in Message /\ worker[w].message.retry < MaxRetries
      BY <2>1 DEF PublishRetry, IInv, TypeOK, RetryInv
    <3>2. worker[w].message.retry + 1 \in 0..MaxRetries
      BY <3>1, Bounds DEF Message
    <3>3. [worker[w].message EXCEPT !.retry = worker[w].message.retry + 1] \in Message
      BY <3>1, <3>2 DEF Message
    <3> QED  BY <2>1, <3>3 DEF PublishRetry, IInv, TypeOK
  <2>2. CASE Acknowledge(w) \/ WorkerDies(w)
    BY <2>2 DEF Acknowledge, WorkerDies, IInv, TypeOK
  <2> QED  BY <2>1, <2>2
<1>6. TypeOK'
  BY <1>1, <1>4, <1>5 DEF IInv, TypeOK
<1>7. KeyInv' /\ AttemptInv' /\ TaskInv'
  BY <1>1 DEF IInv, KeyInv, AttemptInv, TaskInv
<1>8. ClaimInv' /\ RetryInv'
  BY <1>1, <1>4 DEF IInv, TypeOK, ClaimInv, Claims, RetryInv
<1> QED  BY <1>6, <1>7, <1>8 DEF IInv

\* What other components do.
LEMMA OutsideKeepsInv ==
  ASSUME IInv, SupplierResponds \/ ChecksChange
  PROVE  IInv'
<1>1. CASE SupplierResponds
  <2>1. rfq' = [rfq EXCEPT !.status = "responded"] /\ rfq.status = "sent"
        /\ UNCHANGED <<emails, task, request, broker, worker, accepted, crashes>> /\ checks' \subseteq Checks
    BY <1>1 DEF SupplierResponds, Delivery, IInv, TypeOK
  <2>2. /\ rfq' \in Rfq /\ rfq'.status = "responded" /\ rfq'.contact = rfq.contact
        /\ rfq'.version = rfq.version /\ rfq'.key = rfq.key
    BY <2>1, RfqColumns DEF Rfq, RfqStatus
  <2>3. TypeOK' /\ KeyInv'
    BY <2>1, <2>2 DEF IInv, TypeOK, KeyInv, Editable
  <2>4. AttemptInv'
    BY <2>1, <2>2 DEF IInv, AttemptInv, Editable
  <2>5. ClaimInv' /\ TaskInv' /\ RetryInv'
    BY <2>1, <2>2 DEF IInv, ClaimInv, Claims, TaskInv, RetryInv
  <2> QED  BY <2>3, <2>4, <2>5 DEF IInv
<1>2. CASE ChecksChange
  <2>1. checks' \subseteq Checks
    BY <1>2 DEF ChecksChange, IInv, TypeOK
  <2> QED  BY <1>2, <2>1 DEF ChecksChange, Delivery, IInv, TypeOK, KeyInv, AttemptInv, ClaimInv,
                             Claims, TaskInv, RetryInv
<1> QED  BY <1>1, <1>2

LEMMA StutterKeepsInv ==
  ASSUME IInv, UNCHANGED vars
  PROVE  IInv'
BY DEF vars, IInv, TypeOK, KeyInv, AttemptInv, ClaimInv, Claims, TaskInv, RetryInv

LEMMA Inductive == IInv /\ [Next]_vars => IInv'
<1> SUFFICES ASSUME IInv, [Next]_vars PROVE IInv'
  OBVIOUS
<1>1. CASE UserStep
  BY <1>1, DraftingKeepsInv, QueueingKeepsInv DEF UserStep
<1>2. CASE \E t \in Tasks : PublishStep(t) \/ RequestDies(t)
  BY <1>2, PublishingKeepsInv
<1>3. CASE \E w \in Workers : WorkStep(w) \/ WorkerDies(w)
  <2>1. PICK w \in Workers : WorkStep(w) \/ WorkerDies(w)
    BY <1>3
  <2> QED  BY <2>1, ReceivingKeepsInv, AnswerKeepsInv, RecordingKeepsInv, BrokerKeepsInv DEF WorkStep
<1>4. CASE SupplierResponds \/ ChecksChange
  BY <1>4, OutsideKeepsInv
<1>5. CASE UNCHANGED vars
  BY <1>5, StutterKeepsInv
<1> QED  BY <1>1, <1>2, <1>3, <1>4, <1>5 DEF Next

LEMMA Invariance == Spec => []IInv
<1> QED  BY InitInv, Inductive, PTL DEF Spec


-----------------------------------------------------------------------------
(* The invariants of the runs *)

\* Every reachable state is well typed.
THEOREM TypeCorrect == Spec => []TypeOK
<1>1. IInv => TypeOK
  BY DEF IInv
<1> QED  BY <1>1, Invariance, PTL

\* At no time are two workers between the transactions of a send, and the row
\* and the attempt of the one that is stay in "sending".
THEOREM OneWorkerSends == Spec => []ClaimsAreExclusive
<1>1. IInv => ClaimsAreExclusive
  <2> SUFFICES ASSUME IInv, NEW w \in Claims
               PROVE  /\ \A v \in Claims : v = w
                      /\ rfq.status = "sending"
                      /\ worker[w].email \in DOMAIN emails
                      /\ emails[worker[w].email].status = "sending"
    BY DEF ClaimsAreExclusive
  <2>1. /\ \A v \in Claims : v = w
        /\ rfq.status = "sending" /\ worker[w].email = 1
        /\ emails # <<>> /\ emails[1].status = "sending"
    BY DEF IInv, ClaimInv, AttemptInv
  <2> QED  BY <2>1, FirstAttempt DEF IInv, TypeOK
<1> QED  BY <1>1, Invariance, PTL

\* The index of an attempt is 1.
LEMMA OnlyAttempt ==
  ASSUME IInv, NEW i \in DOMAIN emails
  PROVE  i = 1 /\ emails # <<>>
<1>1. Len(emails) \in Nat /\ Len(emails) <= 1 /\ DOMAIN emails = 1..Len(emails)
  BY LenProperties DEF IInv, TypeOK, AttemptInv
<1> QED  BY <1>1, EmptySeq

\* The RFQ row and the attempt rows never disagree on a send that is under way
\* or done.
THEOREM RowsAgree == Spec => []StatusMatchesAttempts
<1>1. IInv => StatusMatchesAttempts
  <2> SUFFICES ASSUME IInv PROVE StatusMatchesAttempts
    OBVIOUS
  <2>1. emails # <<>> => 1 \in DOMAIN emails
    BY FirstAttempt DEF IInv, TypeOK
  <2>2. \A i \in DOMAIN emails : i = 1 /\ emails # <<>>
    BY OnlyAttempt
  <2> QED  BY <2>1, <2>2 DEF StatusMatchesAttempts, IInv, AttemptInv
<1> QED  BY <1>1, Invariance, PTL

\* Only the approved version is sent, to the reviewed contact if there is one.
THEOREM OnlyApprovedContent == Spec => []ApprovedContentIsSent
<1>1. IInv => ApprovedContentIsSent
  BY OnlyAttempt DEF ApprovedContentIsSent, IInv, AttemptInv
<1> QED  BY <1>1, Invariance, PTL

\* Success is never reported of an RFQ that was not sent.
THEOREM SuccessIsTrue == Spec => []SucceededTasksAreSent
<1>1. IInv => SucceededTasksAreSent
  BY DEF IInv, TaskInv, SucceededTasksAreSent
<1> QED  BY <1>1, Invariance, PTL

-----------------------------------------------------------------------------
(* What no step may do *)

\* Only a worker that holds the claim makes the mail server accept something.
LEMMA OnlyClaimsAreAccepted ==
  ASSUME IInv, [Next]_vars, accepted' # accepted
  PROVE  rfq.status = "sending" /\ rfq' = rfq
<1>1. PICK w \in Workers : MailServerAnswers(w)
  <2>1. ~UNCHANGED vars /\ Next
    BY DEF vars
  <2>2. ~UserStep
    BY DEF UserStep, UpdateRfqWorkflow, UpdateRfq, SubmitRfqForReview, RejectRfq, ApproveRfq,
           CancelRfq, QueueRfq, QueueRfqSend, RetryFailedRfq, Outside
  <2>3. \A t \in Tasks : ~PublishStep(t) /\ ~RequestDies(t)
    BY DEF PublishStep, Publish, PublishRaises, QueueUnavailable, RequestDies, Outside
  <2>4. ~SupplierResponds /\ ~ChecksChange
    BY DEF SupplierResponds, ChecksChange
  <2>5. \A w \in Workers, m \in broker : ~StartSending(w, m) /\ ~FindSent(w, m) /\ ~LeaveAlone(w, m)
    BY DEF StartSending, FindSent, LeaveAlone, Outside
  <2>6. \A w \in Workers : /\ ~RecordSent(w) /\ ~RecordFailure(w) /\ ~PublishRetry(w)
                           /\ ~Acknowledge(w) /\ ~WorkerDies(w)
    BY DEF RecordSent, RecordFailure, PublishRetry, Acknowledge, WorkerDies, Outside
  <2> QED  BY <2>1, <2>2, <2>3, <2>4, <2>5, <2>6 DEF Next, WorkStep
<1> QED  BY <1>1 DEF MailServerAnswers, IInv, ClaimInv, Claims

\* No step moves a cancelled RFQ.
LEMMA CancelledStays ==
  ASSUME IInv, [Next]_vars, rfq.status = "cancelled"
  PROVE  rfq'.status = "cancelled"
<1>1. CASE UserStep
  BY <1>1 DEF UserStep, UpdateRfqWorkflow, UpdateRfq, Edited, Editable, SubmitRfqForReview,
     RejectRfq, ApproveRfq, CancelRfq, QueueRfq, QueueRfqSend, RetryFailedRfq, Transitions
<1>2. CASE \E t \in Tasks : PublishStep(t) \/ RequestDies(t)
  <2>1. rfq' = rfq \/ rfq' = [rfq EXCEPT !.status = rfq.status]
    BY <1>2 DEF PublishStep, Publish, PublishRaises, QueueUnavailable, RequestDies
  <2> QED  BY <2>1, RfqColumns DEF Rfq
<1>3. CASE \E w \in Workers : WorkStep(w) \/ WorkerDies(w)
  <2>1. PICK w \in Workers : WorkStep(w) \/ WorkerDies(w)
    BY <1>3
  <2>2. \A m \in broker : ~StartSending(w, m)
    BY DEF StartSending, MayStart
  <2>3. ~RecordSent(w) /\ ~RecordFailure(w)
    BY OwnerHoldsAttempt DEF RecordSent, RecordFailure
  <2> QED
    BY <2>1, <2>2, <2>3 DEF WorkStep, FindSent, LeaveAlone, MailServerAnswers, PublishRetry,
       Acknowledge, WorkerDies
<1>4. CASE SupplierResponds \/ ChecksChange
  BY <1>4 DEF SupplierResponds, ChecksChange
<1>5. CASE UNCHANGED vars
  BY <1>5 DEF vars
<1> QED  BY <1>1, <1>2, <1>3, <1>4, <1>5 DEF Next

\* Whatever was on its way when an RFQ was cancelled, nothing of it is sent.
THEOREM CancellationIsFinal == Spec => CancelledIsFinal
<1>1. IInv /\ [Next]_vars =>
        [rfq.status = "cancelled" => rfq'.status = "cancelled" /\ accepted' = accepted]_vars
  BY CancelledStays, OnlyClaimsAreAccepted
<1> QED  BY <1>1, Invariance, PTL DEF Spec, CancelledIsFinal

\* Attempts are started from the queue and closed by the worker that started.
LEMMA OnlySendsWriteAttempts ==
  ASSUME IInv, [Next]_vars, emails' # emails
  PROVE  rfq.status \in {"queued", "retry_pending", "sending"}
<1>1. PICK w \in Workers : \/ \E m \in broker : StartSending(w, m)
                           \/ RecordSent(w) \/ RecordFailure(w)
  <2>1. ~UNCHANGED vars /\ Next
    BY DEF vars
  <2>2. ~UserStep
    BY DEF UserStep, UpdateRfqWorkflow, UpdateRfq, SubmitRfqForReview, RejectRfq, ApproveRfq,
           CancelRfq, QueueRfq, QueueRfqSend, RetryFailedRfq, Delivery
  <2>3. \A t \in Tasks : ~PublishStep(t) /\ ~RequestDies(t)
    BY DEF PublishStep, Publish, PublishRaises, QueueUnavailable, RequestDies
  <2>4. ~SupplierResponds /\ ~ChecksChange
    BY DEF SupplierResponds, ChecksChange, Delivery
  <2>5. \A w \in Workers, m \in broker : ~FindSent(w, m) /\ ~LeaveAlone(w, m)
    BY DEF FindSent, LeaveAlone
  <2>6. \A w \in Workers : ~MailServerAnswers(w) /\ ~PublishRetry(w) /\ ~Acknowledge(w) /\ ~WorkerDies(w)
    BY DEF MailServerAnswers, PublishRetry, Acknowledge, WorkerDies
  <2> QED  BY <2>1, <2>2, <2>3, <2>4, <2>5, <2>6 DEF Next, WorkStep
<1>2. CASE \E m \in broker : StartSending(w, m)
  BY <1>2 DEF StartSending, MayStart
<1>3. CASE RecordSent(w) \/ RecordFailure(w)
  BY <1>3, OwnerHoldsAttempt DEF RecordSent, RecordFailure
<1> QED  BY <1>1, <1>2, <1>3

\* An ambiguous attempt is the last one, and stays as it is.
THEOREM AmbiguityIsFinal == Spec => AmbiguousIsNotResent
<1>1. IInv /\ [Next]_vars =>
        [\A i \in DOMAIN emails :
           emails[i].error = "ambiguous" => emails' = emails /\ accepted' = accepted]_vars
  <2> SUFFICES ASSUME IInv, [Next]_vars, NEW i \in DOMAIN emails, emails[i].error = "ambiguous"
               PROVE  emails' = emails /\ accepted' = accepted
    OBVIOUS
  <2>1. rfq.status \in {"failed", "cancelled"}
    BY OnlyAttempt DEF IInv, AttemptInv
  <2> QED  BY <2>1, OnlyClaimsAreAccepted, OnlySendsWriteAttempts
<1> QED  BY <1>1, Invariance, PTL DEF Spec, AmbiguousIsNotResent

-----------------------------------------------------------------------------
(* The refinement *)

\* The steps that the promise sees at most as a decision of a person: nothing
\* is sent, and no claim is made.
Quiet ==
  /\ UNCHANGED <<emails, accepted>>
  /\ rfq'.version = rfq.version
  /\ rfq.status = "sending" <=> rfq'.status = "sending"
  /\ Settled' = Settled
  /\ \A w \in Claims' : w \in Claims /\ worker'[w] = worker[w]

DecisionMoves ==
  \/ Decision' = Decision
  \/ Decision = "drafting" /\ Decision' = "approved"
  \/ Decision \in {"drafting", "approved"} /\ ~Settled /\ Decision' = "withdrawn"

\* The value of Decision by cases.
LEMMA DecisionOf ==
  /\ rfq.status \in {"draft", "pending_review"} => Decision = "drafting"
  /\ rfq.status = "cancelled" => Decision = "withdrawn"
  /\ rfq.status \notin {"draft", "pending_review", "cancelled"} => Decision = "approved"
BY DEF Decision

LEMMA NextDecisionOf ==
  /\ rfq'.status \in {"draft", "pending_review"} => Decision' = "drafting"
  /\ rfq'.status = "cancelled" => Decision' = "withdrawn"
  /\ rfq'.status \notin {"draft", "pending_review", "cancelled"} => Decision' = "approved"
BY DEF Decision

\* A change of the RFQ row alone, told by the two statuses.
LEMMA RowMoves ==
  ASSUME IInv, UNCHANGED <<emails, worker, accepted>>, rfq'.version = rfq.version,
         rfq.status = "sending" <=> rfq'.status = "sending",
         Settled' = Settled, DecisionMoves
  PROVE  Quiet /\ DecisionMoves
BY DEF Quiet, Claims

\* Reviews and requests are quiet.
LEMMA UserStepsAreQuiet ==
  ASSUME IInv, UserStep, ~UpdateRfqWorkflow, ~UpdateRfq
  PROVE  Quiet /\ DecisionMoves
<1>1. UNCHANGED <<emails, worker, accepted>>
  BY DEF UserStep, SubmitRfqForReview, RejectRfq, ApproveRfq, CancelRfq, QueueRfq, QueueRfqSend,
     RetryFailedRfq, Delivery, Outside
<1>2. CASE SubmitRfqForReview
  <2>1. rfq.status = "draft" /\ rfq'.status = "pending_review" /\ rfq'.version = rfq.version
    BY <1>2, RfqColumns DEF SubmitRfqForReview, Rfq
  <2> QED  BY <1>1, <2>1, DecisionOf, NextDecisionOf, RowMoves DEF DecisionMoves, Settled
<1>3. CASE RejectRfq
  <2>1. rfq.status = "pending_review" /\ rfq'.status = "draft" /\ rfq'.version = rfq.version
    BY <1>3, RfqColumns DEF RejectRfq, Rfq
  <2> QED  BY <1>1, <2>1, DecisionOf, NextDecisionOf, RowMoves DEF DecisionMoves, Settled
<1>4. CASE ApproveRfq
  <2>1. rfq.status = "pending_review" /\ rfq'.status = "approved" /\ rfq'.version = rfq.version
    BY <1>4, RfqColumns DEF ApproveRfq, Rfq
  <2> QED  BY <1>1, <2>1, DecisionOf, NextDecisionOf, RowMoves DEF DecisionMoves, Settled
<1>5. CASE CancelRfq
  <2>1. rfq'.status = "cancelled" /\ rfq'.version = rfq.version
    BY <1>5, RfqColumns DEF CancelRfq, Rfq
  <2>2. rfq.status \notin {"sending", "sent", "responded", "cancelled"}
    BY <1>5 DEF CancelRfq, Transitions
  <2> QED  BY <1>1, <2>1, <2>2, DecisionOf, NextDecisionOf, RowMoves DEF DecisionMoves, Settled
<1>6. CASE \E t \in Tasks : QueueRfq(t) \/ QueueRfqSend(t) \/ RetryFailedRfq(t)
  <2>1. rfq' = [rfq EXCEPT !.status = "queued"]
    BY <1>6 DEF QueueRfq, QueueRfqSend, RetryFailedRfq, Requested
  <2>2. rfq'.status = "queued" /\ rfq'.version = rfq.version
    BY <2>1, RfqColumns DEF Rfq
  <2>3. rfq.status \in {"approved", "failed", "retry_pending"}
    <3>1. ASSUME NEW t \in Tasks, QueueRfqSend(t) PROVE rfq.status \in {"approved", "retry_pending"}
      BY <3>1, RfqColumns DEF QueueRfqSend, Transitions, RfqStatus
    <3> QED  BY <1>6, <3>1 DEF QueueRfq, RetryFailedRfq
  <2> QED  BY <1>1, <2>2, <2>3, DecisionOf, NextDecisionOf, RowMoves DEF DecisionMoves, Settled
<1> QED  BY <1>2, <1>3, <1>4, <1>5, <1>6 DEF UserStep

\* So is publishing.
LEMMA PublishingIsQuiet ==
  ASSUME IInv, NEW t \in Tasks, PublishStep(t) \/ RequestDies(t)
  PROVE  Quiet /\ DecisionMoves
<1>1. UNCHANGED <<emails, worker, accepted>>
  BY DEF PublishStep, Publish, PublishRaises, QueueUnavailable, RequestDies, Outside
<1>2. rfq' = rfq \/ (rfq.status = "queued" /\ rfq' = [rfq EXCEPT !.status = "failed"])
  BY RfqColumns DEF Rfq, PublishStep, Publish, PublishRaises, QueueUnavailable, RequestDies
<1>3. CASE rfq' = rfq
  BY <1>1, <1>3, RowMoves DEF DecisionMoves, Decision, Settled
<1>4. CASE rfq.status = "queued" /\ rfq' = [rfq EXCEPT !.status = "failed"]
  <2>1. rfq'.status = "failed" /\ rfq'.version = rfq.version
    BY <1>4, RfqColumns DEF Rfq
  <2> QED  BY <1>1, <1>4, <2>1, DecisionOf, NextDecisionOf, RowMoves DEF DecisionMoves, Settled
<1> QED  BY <1>2, <1>3, <1>4

\* So is all a worker does outside a send.
LEMMA FreeWorkersAreQuiet ==
  ASSUME IInv, NEW w \in Workers,
         \/ \E m \in broker : FindSent(w, m) \/ LeaveAlone(w, m)
         \/ PublishRetry(w) \/ Acknowledge(w) \/ WorkerDies(w)
  PROVE  Quiet /\ DecisionMoves
<1>1. UNCHANGED <<rfq, emails, accepted>>
  BY DEF FindSent, LeaveAlone, PublishRetry, Acknowledge, WorkerDies, Outside
<1>2. PICK j : worker' = [worker EXCEPT ![w] = j] /\ j.at \notin {"sending", "answered"}
  <2>1. ASSUME NEW m \in broker, FindSent(w, m) \/ LeaveAlone(w, m)
        PROVE  worker' = [worker EXCEPT ![w] = Returned(m)] /\ Returned(m).at = "returned"
    BY <2>1 DEF FindSent, LeaveAlone, Returned, Idle
  <2>2. CASE PublishRetry(w)
    <3>1. worker' = [worker EXCEPT ![w] = [worker[w] EXCEPT !.at = "returned"]]
      BY <2>2 DEF PublishRetry
    <3>2. [worker[w] EXCEPT !.at = "returned"].at = "returned"
      BY DEF IInv, TypeOK, Work
    <3> QED  BY <3>1, <3>2
  <2>3. CASE Acknowledge(w) \/ WorkerDies(w)
    <3>1. worker' = [worker EXCEPT ![w] = Idle]
      BY <2>3 DEF Acknowledge, WorkerDies
    <3>2. Idle.at = "idle"
      BY DEF Idle
    <3> QED  BY <3>1, <3>2
  <2> QED  BY <2>1, <2>2, <2>3
<1>3. \A v \in Claims' : v \in Claims /\ worker'[v] = worker[v]
  BY <1>2 DEF Claims, IInv, TypeOK
<1> QED  BY <1>1, <1>3 DEF Quiet, DecisionMoves, Decision, Settled

\* So is what other components do.
LEMMA OutsideIsQuiet ==
  ASSUME IInv, SupplierResponds \/ ChecksChange \/ UNCHANGED vars
  PROVE  Quiet /\ DecisionMoves
<1>1. UNCHANGED <<emails, worker, accepted>>
  BY DEF SupplierResponds, ChecksChange, Delivery, vars
<1>2. CASE SupplierResponds
  <2>1. rfq.status = "sent" /\ rfq'.status = "responded" /\ rfq'.version = rfq.version
    BY <1>2, RfqColumns DEF SupplierResponds, Rfq
  <2> QED  BY <1>1, <2>1, DecisionOf, NextDecisionOf, RowMoves DEF DecisionMoves, Settled
<1>3. CASE ChecksChange \/ UNCHANGED vars
  <2>1. rfq' = rfq
    BY <1>3 DEF ChecksChange, vars
  <2> QED  BY <1>1, <2>1, RowMoves DEF DecisionMoves, Decision, Settled
<1> QED  BY <1>2, <1>3

\* Quiet steps keep what is known of the mail server and map to a decision or
\* to nothing.
LEMMA QuietSteps ==
  ASSUME IInv, IInv', AcceptedInv, Quiet, DecisionMoves
  PROVE  AcceptedInv' /\ [Once!Next]_(Once!vars)
<1>1. AcceptedInv'
  BY DEF AcceptedInv, Quiet, Settled
<1>2. [Once!Next]_(Once!vars)
  BY DEF DecisionMoves, Quiet, Once!Next, Once!Approve, Once!Withdraw, Once!vars
<1> QED  BY <1>1, <1>2

\* An edit is a revision.
LEMMA EditIsRevision ==
  ASSUME IInv, AcceptedInv, NEW n \in {1, 2}, NEW to \in Recipients, Edited(n, to),
         UNCHANGED <<Delivery, Outside>>
  PROVE  AcceptedInv' /\ Once!Revise
<1>1. /\ rfq'.version = rfq.version + n /\ rfq'.status = "draft" /\ rfq.status \in Editable
  BY RfqColumns DEF Edited, Rfq
<1>2. rfq'.version \in Nat /\ rfq'.version > rfq.version
  BY <1>1, RfqColumns, Bounds
<1>3. emails = <<>> /\ Claims = {} /\ rfq.status \in {"draft", "pending_review"}
  BY <1>1 DEF IInv, AttemptInv, ClaimInv, Editable
<1>4. accepted = <<>>
  BY <1>3 DEF AcceptedInv
<1>5. Claims' = {}
  BY <1>3 DEF Claims, Delivery
<1>6. AcceptedInv'
  BY <1>1, <1>4, <1>5 DEF AcceptedInv, Outside
<1>7. Once!Revise
  BY <1>1, <1>2, <1>3, DecisionOf, NextDecisionOf DEF Once!Revise, Settled, Outside
<1> QED  BY <1>6, <1>7

\* The start of a send is invisible: nothing was accepted before it.
LEMMA StartIsInvisible ==
  ASSUME IInv, AcceptedInv, NEW w \in Workers, NEW m \in broker, StartSending(w, m)
  PROVE  AcceptedInv' /\ UNCHANGED Once!vars
<1>1. /\ rfq.status \in {"queued", "retry_pending"} /\ Claims = {}
      /\ emails # <<>> => emails[1].error # "ambiguous"
  BY AttemptStarted
<1>2. accepted = <<>> /\ accepted' = <<>>
  BY <1>1 DEF AcceptedInv, StartSending, Outside
<1>3. rfq'.status = "sending" /\ rfq'.version = rfq.version
  BY RfqColumns DEF StartSending, Rfq
<1>4. \A v \in Claims' : worker'[v].at = "sending"
  BY <1>1 DEF Claims, StartSending, IInv, TypeOK
<1>5. AcceptedInv'
  BY <1>2, <1>3, <1>4 DEF AcceptedInv
<1>6. Decision' = Decision /\ Settled' = Settled
  BY <1>1, <1>3, DecisionOf, NextDecisionOf DEF Settled
<1> QED  BY <1>2, <1>3, <1>5, <1>6 DEF Once!vars

\* The answer of the mail server is the delivery, if it accepted.
LEMMA AnswerIsDelivery ==
  ASSUME IInv, AcceptedInv, "late_answer" \notin Faults, NEW w \in Workers, MailServerAnswers(w)
  PROVE  AcceptedInv' /\ (Once!Deliver \/ UNCHANGED Once!vars)
<1>1. /\ w \in Claims /\ \A v \in Claims : v = w
      /\ rfq.status = "sending" /\ worker[w].email = 1 /\ worker[w] \in Work
      /\ emails[1].version = rfq.version
  BY DEF MailServerAnswers, IInv, TypeOK, ClaimInv, Claims, AttemptInv
<1>2. accepted = <<>>
  BY <1>1 DEF MailServerAnswers, AcceptedInv
<1>3. PICK o \in Outcomes :
        /\ worker' = [worker EXCEPT ![w].at = "answered", ![w].error = o.error]
        /\ accepted' = IF o.accepted THEN Append(accepted, emails[1].version) ELSE accepted
  BY <1>1 DEF MailServerAnswers
<1>4. \/ o.accepted = TRUE /\ o.error \in {"none", "ambiguous"}
      \/ o.accepted = FALSE /\ o.error \in {"retryable", "permanent", "ambiguous"}
  <2>1. CASE o = [accepted |-> TRUE, error |-> "none"]
    BY <2>1
  <2>2. CASE o \in [accepted : {FALSE}, error : {"retryable", "permanent"}]
    BY <2>2
  <2>3. CASE o \in [accepted : BOOLEAN, error : {"ambiguous"}]
    BY <2>3
  <2> QED  BY <2>1, <2>2, <2>3 DEF Outcomes
<1>5. accepted' = IF o.accepted THEN <<rfq.version>> ELSE <<>>
  BY <1>1, <1>2, <1>3
<1>6. UNCHANGED <<rfq, emails>>
  BY DEF MailServerAnswers
<1>7. /\ \A v \in Claims' : v = w
      /\ worker'[w].at = "answered" /\ worker'[w].error = o.error
  BY <1>1, <1>3 DEF Claims, IInv, TypeOK, Work
<1>8. AcceptedInv'
  BY <1>1, <1>4, <1>5, <1>6, <1>7 DEF AcceptedInv
<1>9. Decision = "approved" /\ Decision' = Decision /\ Settled' = Settled
  BY <1>1, <1>6, DecisionOf DEF Decision, Settled
<1>10. Once!Deliver \/ UNCHANGED Once!vars
  BY <1>2, <1>4, <1>5, <1>6, <1>9 DEF Once!Deliver, Once!vars
<1> QED  BY <1>8, <1>10

\* Recording a success settles; recording a failure is invisible.
LEMMA RecordIsSettlement ==
  ASSUME IInv, IInv', AcceptedInv, NEW w \in Workers, RecordSent(w) \/ RecordFailure(w)
  PROVE  AcceptedInv' /\ (Once!Settle \/ UNCHANGED Once!vars)
<1>1. /\ w \in Claims /\ worker[w].at = "answered" /\ \A v \in Claims : v = w
      /\ worker[w].email = 1 /\ rfq.status = "sending" /\ worker[w].error \in Errors
      /\ emails # <<>> /\ emails[1] \in Email
  BY OwnerHoldsAttempt DEF RecordSent, RecordFailure, OwnsAttempt
<1>2. accepted' = accepted /\ Decision = "approved" /\ ~Settled
  BY <1>1, DecisionOf DEF RecordSent, RecordFailure, Outside, Settled
<1>3. CASE RecordSent(w)
  <2>1. rfq'.status = "sent" /\ rfq'.version = rfq.version
    BY <1>3, RfqColumns DEF RecordSent, Rfq
  <2>2. accepted = <<rfq.version>>
    BY <1>1, <1>3 DEF RecordSent, AcceptedInv
  <2>3. Claims' = {}
    BY <2>1 DEF IInv, ClaimInv
  <2>4. AcceptedInv'
    BY <1>2, <2>1, <2>2, <2>3 DEF AcceptedInv
  <2>5. Once!Settle
    BY <1>2, <2>1, <2>2, NextDecisionOf DEF Once!Settle, Settled
  <2> QED  BY <2>4, <2>5
<1>4. CASE RecordFailure(w)
  <2>1. rfq' = [rfq EXCEPT !.status = StatusAfterFailure(rfq.contact, worker[w].error)]
    BY <1>4 DEF RecordFailure
  <2>2. rfq'.status \in {"failed", "retry_pending"} /\ rfq'.version = rfq.version
    BY <2>1, RfqColumns DEF Rfq, StatusAfterFailure
  <2>3. Claims' = {}
    BY <2>2 DEF IInv, ClaimInv
  <2>4. emails' # <<>> /\ emails'[1].error = worker[w].error
    <3>1. emails' = [emails EXCEPT ![1] = [emails[1] EXCEPT !.status = "failed", !.error = worker[w].error]]
      BY <1>1, <1>4, FirstAttempt DEF RecordFailure, IInv, TypeOK
    <3>2. [emails[1] EXCEPT !.status = "failed", !.error = worker[w].error] \in Email
      BY <1>1 DEF Email, EmailStatus
    <3>3. emails' # <<>> /\ emails'[1] = [emails[1] EXCEPT !.status = "failed", !.error = worker[w].error]
      BY <1>1, <3>1, <3>2, AttemptRewritten DEF IInv, TypeOK
    <3> QED  BY <1>1, <3>3 DEF Email
  <2>5. accepted # <<>> => worker[w].error = "ambiguous"
    BY <1>1, <1>4 DEF RecordFailure, AcceptedInv, Errors
  <2>6. AcceptedInv'
    BY <1>2, <2>2, <2>3, <2>4, <2>5 DEF AcceptedInv
  <2>7. UNCHANGED Once!vars
    BY <1>2, <2>2, NextDecisionOf DEF Once!vars, Settled
  <2> QED  BY <2>6, <2>7
<1> QED  BY <1>3, <1>4

\* Every step is a step of the promise.
LEMMA StepRefines ==
  ASSUME "late_answer" \notin Faults, IInv, AcceptedInv, [Next]_vars
  PROVE  AcceptedInv' /\ [Once!Next]_(Once!vars)
<1>0. IInv'
  BY Inductive
<1>1. CASE Quiet /\ DecisionMoves
  BY <1>0, <1>1, QuietSteps
<1>2. CASE UserStep
  <2>1. CASE UpdateRfqWorkflow
    BY <2>1, EditIsRevision, RfqColumns DEF UpdateRfqWorkflow, Once!Next
  <2>2. CASE UpdateRfq
    BY <2>2, EditIsRevision DEF UpdateRfq, Recipients, Once!Next
  <2>3. CASE ~UpdateRfqWorkflow /\ ~UpdateRfq
    BY <1>1, <1>2, <2>3, UserStepsAreQuiet
  <2> QED  BY <2>1, <2>2, <2>3
<1>3. CASE \E t \in Tasks : PublishStep(t) \/ RequestDies(t)
  BY <1>1, <1>3, PublishingIsQuiet
<1>4. CASE \E w \in Workers : WorkStep(w) \/ WorkerDies(w)
  <2>1. PICK w \in Workers : WorkStep(w) \/ WorkerDies(w)
    BY <1>4
  <2>2. CASE \E m \in broker : StartSending(w, m)
    BY <2>2, StartIsInvisible
  <2>3. CASE MailServerAnswers(w)
    BY <2>3, AnswerIsDelivery DEF Once!Next
  <2>4. CASE RecordSent(w) \/ RecordFailure(w)
    BY <1>0, <2>4, RecordIsSettlement DEF Once!Next
  <2>5. CASE \/ \E m \in broker : FindSent(w, m) \/ LeaveAlone(w, m)
             \/ PublishRetry(w) \/ Acknowledge(w) \/ WorkerDies(w)
    BY <1>1, <2>5, FreeWorkersAreQuiet
  <2> QED  BY <2>1, <2>2, <2>3, <2>4, <2>5 DEF WorkStep
<1>5. CASE SupplierResponds \/ ChecksChange \/ UNCHANGED vars
  BY <1>1, <1>5, OutsideIsQuiet
<1> QED  BY <1>2, <1>3, <1>4, <1>5 DEF Next

\* If the errors of the mail server mean what the adapter makes of them, the
\* component keeps its promise: the approved version, once, or not at all.
THEOREM PromiseIsKept ==
  ASSUME "late_answer" \notin Faults
  PROVE  Spec => ImplementsSendOnce
<1>1. Init => AcceptedInv /\ Once!Init
  <2> SUFFICES ASSUME Init PROVE AcceptedInv /\ Once!Init
    OBVIOUS
  <2>1. /\ rfq.status \in {"draft", "pending_review"} /\ rfq.version = 1
        /\ accepted = <<>> /\ Claims = {}
    BY DEF Init, GeneratedForContact, GeneratedForTender, Claims, Idle
  <2> QED  BY <2>1, DecisionOf DEF AcceptedInv, Once!Init, Settled
<1>2. IInv /\ AcceptedInv /\ [Next]_vars => AcceptedInv' /\ [Once!Next]_(Once!vars)
  BY StepRefines
<1> QED
  BY <1>1, <1>2, Invariance, PTL DEF Spec, ImplementsSendOnce, Once!Spec
=============================================================================
