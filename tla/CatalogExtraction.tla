------------------------- MODULE CatalogExtraction -------------------------
(***************************************************************************)
(* The catalog of one tender: the extraction runs of its documents, the    *)
(* products an answer of the AI leaves, their review, and the snapshots of *)
(* the approved catalog.                                                   *)
(*                                                                         *)
(* The three transactions of a worker lock the row of the run, so each is  *)
(* one step; the call of the AI service lies between them, outside of any  *)
(* transaction.  The request, the review and the approval lock nothing:    *)
(* what they read and what they write are separate steps.  A review reads  *)
(* the product twice: the session keeps nothing of the row that was read   *)
(* first, so update_product fetches it anew, sets every column to what the *)
(* review made of the first copy, and the UPDATE names the columns that    *)
(* differ from the second one, with no version to compare.                 *)
(*                                                                         *)
(* Prompt, model and schema are fixed: a document has one run.             *)
(***************************************************************************)
EXTENDS Naturals, FiniteSets

CONSTANTS
  Documents,    \* the documents of the tender that became ready for the AI
  Items,        \* the products an answer may name
  Fields,       \* the reviewable columns of a product, its status apart
  Values,       \* what such a column may hold
  Requests,     \* calls of RequestTenderCatalogExtraction in progress at a
                \* time, and bound: the messages each of them may have pending
  Workers,      \* Celery worker processes of the queue ai-extraction
  Reviewers,    \* calls of UpdateCatalogProduct and ApproveTenderCatalog
  Absent,       \* the row of a product that no answer created
  Faults,       \* the faults that may happen, a subset of AllFaults
  MaxRetries,   \* max_retries of the task
  MaxVersions,  \* bound: snapshots
  MaxReviews,   \* bound: calls of UpdateCatalogProduct
  MaxDisruptions  \* bound: deaths of worker processes and deletions of documents,
                  \* together

VARIABLES
  ready,      \* whether a document is still ready_for_ai
  run,        \* ai_extraction_runs.status of the document's run
  products,   \* catalog_products: by document and item, a row or Absent
  snapshots,  \* catalog_snapshots
  request,    \* what each request has yet to write and to publish
  broker,     \* the unacknowledged messages
  worker,     \* what each worker is doing
  review,     \* what each review or approval has read
  vouched,    \* history: what reviewers approved, as they had read it
  overtaken,  \* history: the reviews whose product another review has written
              \* since they fetched it to update it
  torn,       \* history: what the updates of such reviews left
  answers,    \* history: how many answers left products, by document
  refused,    \* history: the documents whose publication, or last try, failed
  reviews,    \* calls of UpdateCatalogProduct so far
  crashes     \* worker deaths so far

vars == <<ready, run, products, snapshots, request, broker, worker, review,
          vouched, overtaken, torn, answers, refused, reviews,
          crashes>>

-----------------------------------------------------------------------------
(* Values *)

\* "publish_down": publishing raises, or the API dies before it.  "no_key": a
\* worker has no API key.  "no_prompt": a worker does not have the prompt of the
\* run.  "provider": the AI service, or writing, fails.  "invalid": an answer
\* does not validate.  "deletion": a document is deleted.
AllFaults ==
  {"publish_down", "no_key", "no_prompt", "provider", "invalid", "deletion"}

\* AIExtractionRunStatus.  mark_reused has no caller; "none": no run yet.
RunStatus == {"none", "queued", "running", "completed", "failed"}

\* ProductStatus.  Candidate and normalized are left behind in the transaction
\* that creates the product.
ProductStatus == {"pending_review", "approved", "rejected"}

Texts == [Fields -> Values]

Product == [status : ProductStatus, text : Texts]

ProductIds == Documents \X Items

\* A task is a message of one request for one run, in one of its tries.
Message == [from : Requests, doc : Documents, try : 0..MaxRetries]

Task(q, d) == [from |-> q, doc |-> d, try |-> 0]

\* "unread": the run of the document is yet to be looked up.
Plan == {"unread", "skip", "create", "restart"}

RequestState == [at : {"idle", "write", "publish"},
                 plan : [Documents -> Plan], left : SUBSET Documents]

NoRequest == [at |-> "idle", plan |-> [d \in Documents |-> "skip"], left |-> {}]

\* "calling": the AI service is at work.  "retrying": the run failed and the
\* task is to be tried again.  "returned": only the acknowledgement is missing.
WorkerState == [at : {"idle", "taken", "calling", "retrying", "returned"},
                message : Message \cup {Absent}]

Idle == [at |-> "idle", message |-> Absent]

Entry == [product : ProductIds, text : Texts]

Snapshot == [version : 1..MaxVersions, by : Reviewers, products : SUBSET Entry]

\* Of a review: the copy it read first, or what is to be stored and the row as
\* it was fetched for the update.  Of an approval: the products and the version.
ReviewState ==
  [at : {"idle", "product", "update", "version", "snapshot"},
   product : ProductIds \cup {Absent}, seen : Product \cup {Absent},
   wanted : Product \cup {Absent}, found : Product \cup {Absent},
   entries : SUBSET Entry, version : 1..MaxVersions]

NoReview == [at |-> "idle", product |-> Absent, seen |-> Absent, wanted |-> Absent,
             found |-> Absent, entries |-> {}, version |-> 1]

ASSUME NamesAssumption ==
  /\ Absent \notin Product /\ Absent \notin Message /\ Absent \notin ProductIds
  /\ Values # {}

ASSUME BoundsAssumption ==
  Faults \subseteq AllFaults /\ MaxRetries \in Nat /\ MaxVersions \in Nat \ {0}
    /\ MaxReviews \in Nat /\ MaxDisruptions \in Nat

-----------------------------------------------------------------------------
(* Domain rules *)

\* _PRODUCT_TRANSITIONS; a transition to where a product already is is no error.
MayBecome(from, to) == from = to \/ from = "pending_review"

\* The methods of AIExtractionRun.  None of them looks at the status, start apart.
RunStarted(d) == [run EXCEPT ![d] = IF @ = "completed" THEN @ ELSE "running"]

RunCompleted(d) == [run EXCEPT ![d] = "completed"]

RunFailed(d) == [run EXCEPT ![d] = "failed"]

RunsRequested(D) == [d \in Documents |-> IF d \in D THEN "queued" ELSE run[d]]

Exists(p) == products[p] # Absent

Existing == {p \in ProductIds : Exists(p)}

HasProducts(d) == \E i \in Items : Exists(<<d, i>>)

Held(m) == \E w \in Workers : worker[w].message = m

-----------------------------------------------------------------------------
Init ==
  /\ ready = [d \in Documents |-> TRUE]
  /\ run = [d \in Documents |-> "none"]
  /\ products = [p \in ProductIds |-> Absent]
  /\ snapshots = {}
  /\ request = [q \in Requests |-> NoRequest]
  /\ broker = {}
  /\ worker = [w \in Workers |-> Idle]
  /\ review = [r \in Reviewers |-> NoReview]
  /\ vouched = {} /\ overtaken = {} /\ torn = {}
  /\ answers = [d \in Documents |-> 0]
  /\ refused = {}
  /\ reviews = 0 /\ crashes = 0

-----------------------------------------------------------------------------
(* RequestTenderCatalogExtraction *)

Reviewed == <<snapshots, review, vouched, overtaken, torn, reviews>>

Review == <<products, answers, Reviewed>>

\* The documents are read by one statement, and then their runs one after the
\* other, without a lock.

RequestReads(q) ==
  /\ request[q].at = "idle"
  /\ \A m \in broker : m.from # q
  /\ \E d \in Documents : ready[d]
  /\ request' = [request EXCEPT ![q] =
       [at |-> "write", left |-> {},
        plan |-> [d \in Documents |-> IF ready[d] THEN "unread" ELSE "skip"]]]
  /\ UNCHANGED <<ready, run, broker, worker, refused, crashes, Review>>

PlanFor(d) ==
  CASE run[d] = "none" -> "create"
    [] run[d] = "failed" -> "restart"
    [] OTHER -> "skip"

RequestReadsRun(q, d) ==
  /\ request[q].at = "write" /\ request[q].plan[d] = "unread"
  /\ request' = [request EXCEPT ![q].plan[d] = PlanFor(d)]
  /\ UNCHANGED <<ready, run, broker, worker, refused, crashes, Review>>

Planned(q) == {d \in Documents : request[q].plan[d] # "skip"}

\* Somebody else created a run of the plan: the insert violates the key
\* (document_id, idempotency_key) and the whole request is rolled back.
Conflicts(q) == \E d \in Documents : request[q].plan[d] = "create" /\ run[d] # "none"

\* The commit.  A restart writes queued over whatever became of the run; one that
\* finds it queued again leaves the status, as a commit at that moment would.
RequestCommits(q) ==
  /\ request[q].at = "write" /\ \A d \in Documents : request[q].plan[d] # "unread"
  /\ IF Conflicts(q)
       THEN request' = [request EXCEPT ![q] = NoRequest] /\ UNCHANGED run
       ELSE /\ run' = RunsRequested(Planned(q))
            /\ request' = [request EXCEPT ![q] =
                 IF Planned(q) = {} THEN NoRequest
                 ELSE [NoRequest EXCEPT !.at = "publish", !.left = Planned(q)]]
  /\ UNCHANGED <<ready, broker, worker, refused, crashes, Review>>

Without(q, left) ==
  [request EXCEPT ![q] = IF left = {} THEN NoRequest ELSE [@ EXCEPT !.left = left]]

Publish(q, d) ==
  /\ request[q].at = "publish" /\ d \in request[q].left
  /\ broker' = broker \cup {Task(q, d)}
  /\ request' = Without(q, request[q].left \ {d})
  /\ UNCHANGED <<ready, run, worker, refused, crashes, Review>>

\* No handler: the request raises, and what is left is never published.
PublishRaises(q) ==
  /\ "publish_down" \in Faults
  /\ request[q].at = "publish"
  /\ refused' = refused \cup request[q].left
  /\ request' = [request EXCEPT ![q] = NoRequest]
  /\ UNCHANGED <<ready, run, broker, worker, crashes, Review>>

Disruptions == crashes + Cardinality({d \in Documents : ~ready[d]})

\* Outside: a document that is ready can only be deleted, or hidden with its tender.
DocumentDeleted(d) ==
  /\ "deletion" \in Faults /\ Disruptions < MaxDisruptions
  /\ ready[d]
  /\ ready' = [ready EXCEPT ![d] = FALSE]
  /\ UNCHANGED <<run, request, broker, worker, refused, crashes, Review>>

-----------------------------------------------------------------------------
(* The worker: extract_tender_catalog and ProcessAIExtractionRun *)

DocOf(w) == worker[w].message.doc

Goes(w, at) == worker' = [worker EXCEPT ![w].at = at]

Receive(w, m) ==
  /\ worker[w].at = "idle"
  /\ m \in broker /\ ~Held(m)
  /\ worker' = [worker EXCEPT ![w] = [at |-> "taken", message |-> m]]
  /\ UNCHANGED <<ready, run, request, broker, refused, crashes, Review>>

\* autoretry_for: AIExtractionFailure only, until the tries are used up.
AfterFailure(w) ==
  IF worker[w].message.try < MaxRetries THEN "retrying" ELSE "returned"

\* Raised before the run is read, so the run never learns of it.
MissingKey(w) ==
  /\ "no_key" \in Faults
  /\ worker[w].at = "taken"
  /\ Goes(w, AfterFailure(w))
  /\ refused' = IF AfterFailure(w) = "returned" THEN refused \cup {DocOf(w)} ELSE refused
  /\ UNCHANGED <<ready, run, request, broker, crashes, Review>>

\* First transaction.  A completed run ends the task; a document that is not
\* ready raises InvalidCatalogState, which nobody retries and the run does not
\* show; anything else starts the run, a running one included.  (A document that
\* is ready has pages: its quality was decided on them.)
Start(w) ==
  /\ worker[w].at = "taken"
  /\ LET d == DocOf(w)
         starts == run[d] # "completed" /\ ready[d]
     IN /\ run' = IF starts THEN RunStarted(d) ELSE run
        /\ Goes(w, IF starts THEN "calling" ELSE "returned")
  /\ UNCHANGED <<ready, request, broker, refused, crashes, Review>>

\* Between the transactions, outside of the try: PromptNotFound ends the task, and
\* the run stays as it was started.
PromptMissing(w) ==
  /\ "no_prompt" \in Faults
  /\ worker[w].at = "calling"
  /\ Goes(w, "returned")
  /\ refused' = refused \cup {DocOf(w)}
  /\ UNCHANGED <<ready, run, request, broker, crashes, Review>>

\* Mutant of Store: what the run already has is not looked up.
StoreAgain(w) ==
  /\ worker[w].at = "calling"
  /\ LET d == DocOf(w) IN
     \E found \in SUBSET Items, text \in Texts :
       /\ products' = [p \in ProductIds |->
            IF p[1] = d /\ p[2] \in found
              THEN [status |-> "pending_review", text |-> text] ELSE products[p]]
       /\ answers' = [answers EXCEPT ![d] = IF found = {} THEN @ ELSE @ + 1]
       /\ run' = RunCompleted(d)
  /\ Goes(w, "returned")
  /\ UNCHANGED <<ready, request, broker, refused, crashes, Reviewed>>

\* Second transaction: the answer was validated.  If the run has products they
\* stay, and the run stays as it is; otherwise the products of the answer are
\* created, normalized and offered for review, and the run is completed.
Store(w) ==
  /\ worker[w].at = "calling"
  /\ LET d == DocOf(w) IN
     IF HasProducts(d)
       THEN UNCHANGED <<products, answers, run>>
       ELSE \E found \in SUBSET Items, text \in Texts :
              /\ products' = [p \in ProductIds |->
                   IF p[1] = d /\ p[2] \in found
                     THEN [status |-> "pending_review", text |-> text] ELSE products[p]]
              /\ answers' = [answers EXCEPT ![d] = IF found = {} THEN @ ELSE @ + 1]
              /\ run' = RunCompleted(d)
  /\ Goes(w, "returned")
  /\ UNCHANGED <<ready, request, broker, refused, crashes, Reviewed>>

\* Third transaction: whatever went wrong, and whatever became of the run, it is
\* failed now.  A validation error ends the task, all else is retried.
Fail(w) ==
  /\ worker[w].at = "calling"
  /\ \/ "invalid" \in Faults /\ Goes(w, "returned")
     \/ "provider" \in Faults /\ Goes(w, AfterFailure(w))
  /\ run' = RunFailed(DocOf(w))
  /\ UNCHANGED <<ready, request, broker, refused, crashes, Review>>

\* Mutant of Retry: the task gives up on its first failure.
RetryNever(w) ==
  /\ worker[w].at = "retrying"
  /\ broker' = broker \ {worker[w].message}
  /\ worker' = [worker EXCEPT ![w] = Idle]
  /\ UNCHANGED <<ready, run, request, refused, crashes, Review>>

Retry(w) ==
  /\ worker[w].at = "retrying"
  /\ broker' = (broker \ {worker[w].message})
                 \cup {[worker[w].message EXCEPT !.try = @ + 1]}
  /\ worker' = [worker EXCEPT ![w] = Idle]
  /\ UNCHANGED <<ready, run, request, refused, crashes, Review>>

Acknowledge(w) ==
  /\ worker[w].at = "returned"
  /\ broker' = broker \ {worker[w].message}
  /\ worker' = [worker EXCEPT ![w] = Idle]
  /\ UNCHANGED <<ready, run, request, refused, crashes, Review>>

\* The message is delivered again: it was not acknowledged.
WorkerDies(w) ==
  /\ Disruptions < MaxDisruptions
  /\ worker[w].at # "idle"
  /\ worker' = [worker EXCEPT ![w] = Idle]
  /\ crashes' = crashes + 1
  /\ UNCHANGED <<ready, run, request, broker, refused, Review>>

-----------------------------------------------------------------------------
(* The review: UpdateCatalogProduct *)

Extraction == <<ready, run, request, broker, worker, answers, refused, crashes>>

ReviewReads(r, p) ==
  /\ review[r].at = "idle"
  /\ reviews < MaxReviews /\ reviews' = reviews + 1
  /\ Exists(p)
  /\ review' = [review EXCEPT ![r] =
       [NoReview EXCEPT !.at = "product", !.product = p, !.seen = products[p]]]
  /\ UNCHANGED <<products, snapshots, vouched, overtaken, torn, Extraction>>

Finish(r) == review' = [review EXCEPT ![r] = NoReview]

\* The product was read in a state that does not allow the action.
ReviewRefused(r) ==
  /\ review[r].at = "product"
  /\ review[r].seen.status # "pending_review"
  /\ Finish(r)
  /\ UNCHANGED <<products, snapshots, vouched, overtaken, torn, reviews, Extraction>>

\* update_product: the row is fetched again, whatever it has become, and gets the
\* values of the copy.
Prepares(r, wanted, found) ==
  /\ review' = [review EXCEPT ![r] =
       [NoReview EXCEPT !.at = "update", !.product = review[r].product,
                        !.wanted = wanted, !.found = found]]
  /\ UNCHANGED <<products, snapshots, vouched, overtaken, torn, reviews, Extraction>>

\* edit, of what was read as pending.
Edit(r, text) ==
  /\ review[r].at = "product"
  /\ review[r].seen.status = "pending_review"
  /\ Prepares(r, [status |-> "pending_review", text |-> text], products[review[r].product])

\* Mutant of Decide: the session answers the second read with the first copy.
DecideUnfetched(r, status) ==
  /\ review[r].at = "product"
  /\ status \in {"approved", "rejected"}
  /\ MayBecome(review[r].seen.status, status)
  /\ Prepares(r, [review[r].seen EXCEPT !.status = status], review[r].seen)

\* approve and reject.
Decide(r, status) ==
  /\ review[r].at = "product"
  /\ status \in {"approved", "rejected"}
  /\ MayBecome(review[r].seen.status, status)
  /\ Prepares(r, [review[r].seen EXCEPT !.status = status], products[review[r].product])

\* A column the UPDATE does not name keeps what another transaction stored.
Column(wanted, found, stored) == IF wanted = found THEN stored ELSE wanted

Flushed(wanted, found, stored) ==
  [status |-> Column(wanted.status, found.status, stored.status),
   text |-> [f \in Fields |-> Column(wanted.text[f], found.text[f], stored.text[f])]]

Others(r, p) ==
  {o \in Reviewers \ {r} : review[o].at = "update" /\ review[o].product = p}

\* The flush and the commit.  Who approves vouches for the values of the copy.
Updates(r) ==
  /\ review[r].at = "update"
  /\ LET p == review[r].product
         row == Flushed(review[r].wanted, review[r].found, products[p])
     IN /\ products' = [products EXCEPT ![p] = row]
        /\ vouched' = IF review[r].wanted.status = "approved"
             THEN vouched \cup {[product |-> p, text |-> review[r].wanted.text]}
             ELSE vouched
        /\ torn' = IF r \in overtaken
             THEN torn \cup {[product |-> p, text |-> row.text]} ELSE torn
        /\ overtaken' = (overtaken \ {r}) \cup Others(r, p)
  /\ Finish(r)
  /\ UNCHANGED <<snapshots, reviews, Extraction>>

-----------------------------------------------------------------------------
(* The approval: ApproveTenderCatalog *)

Approved == {p \in Existing : products[p].status = "approved"}

\* Every product is decided and one at least approved, or the call raises.
CatalogReads(r) ==
  /\ review[r].at = "idle"
  /\ Approved # {}
  /\ \A p \in Existing : products[p].status # "pending_review"
  /\ review' = [review EXCEPT ![r] = [NoReview EXCEPT !.at = "version",
       !.entries = {[product |-> p, text |-> products[p].text] : p \in Approved}]]
  /\ UNCHANGED <<products, snapshots, vouched, overtaken, torn, reviews, Extraction>>

\* The latest snapshot is read by another statement.
VersionReads(r) ==
  /\ review[r].at = "version"
  /\ Cardinality(snapshots) < MaxVersions
  /\ review' = [review EXCEPT ![r].at = "snapshot", ![r].version = Cardinality(snapshots) + 1]
  /\ UNCHANGED <<products, snapshots, vouched, overtaken, torn, reviews, Extraction>>

\* The key (tender_id, version) rejects the second of two equal versions.
SnapshotCommits(r) ==
  /\ review[r].at = "snapshot"
  /\ snapshots' = IF \E s \in snapshots : s.version = review[r].version THEN snapshots
                  ELSE snapshots \cup
                    {[version |-> review[r].version, by |-> r, products |-> review[r].entries]}
  /\ Finish(r)
  /\ UNCHANGED <<products, vouched, overtaken, torn, reviews, Extraction>>

-----------------------------------------------------------------------------
RequestStep(q) ==
  RequestCommits(q) \/ \E d \in Documents : RequestReadsRun(q, d) \/ Publish(q, d)

WorkerStep(w) ==
  \/ \E m \in broker : Receive(w, m)
  \/ Start(w) \/ Store(w) \/ Fail(w) \/ Retry(w) \/ Acknowledge(w)

ReviewStep(r) ==
  \/ \E p \in ProductIds : ReviewReads(r, p)
  \/ ReviewRefused(r)
  \/ \E text \in Texts : Edit(r, text)
  \/ \E status \in ProductStatus : Decide(r, status)
  \/ Updates(r)
  \/ CatalogReads(r) \/ VersionReads(r) \/ SnapshotCommits(r)

Next ==
  \/ \E q \in Requests : RequestReads(q) \/ RequestStep(q) \/ PublishRaises(q)
  \/ \E d \in Documents : DocumentDeleted(d)
  \/ \E w \in Workers : WorkerStep(w) \/ MissingKey(w) \/ PromptMissing(w) \/ WorkerDies(w)
  \/ \E r \in Reviewers : ReviewStep(r)

Spec == Init /\ [][Next]_vars

-----------------------------------------------------------------------------
(* Properties *)

\* Every row and everything in progress is well typed.
TypeOK ==
  /\ ready \in [Documents -> BOOLEAN]
  /\ run \in [Documents -> RunStatus]
  /\ products \in [ProductIds -> Product \cup {Absent}]
  /\ snapshots \subseteq Snapshot
  /\ request \in [Requests -> RequestState]
  /\ broker \subseteq Message
  /\ worker \in [Workers -> WorkerState]
  /\ review \in [Reviewers -> ReviewState]
  /\ vouched \subseteq Entry /\ overtaken \subseteq Reviewers /\ torn \subseteq Entry
  /\ answers \in [Documents -> Nat]
  /\ refused \subseteq Documents
  /\ reviews \in Nat /\ crashes \in Nat

\* The products of a document come from one answer of the AI, however often its
\* run was requested, delivered, retried and restarted, in parallel or not.
OneAnswerPerRun == \A d \in Documents : answers[d] <= 1

\* A document whose run is open and has no products yet is being taken care of:
\* by the request that is to publish it, by a message, or by a worker.  The
\* exceptions are those the code makes: a publication that was refused, a key
\* that was missing to the end, a prompt that was missing, a document that is no
\* longer ready.
Attended(d) ==
  \/ \E q \in Requests : d \in request[q].left
  \/ \E m \in broker : m.doc = d /\ ~Held(m)
  \/ \E w \in Workers : worker[w].at \in {"taken", "calling", "retrying"} /\ DocOf(w) = d

OpenRunsAreAttended ==
  \A d \in Documents :
    run[d] \in {"queued", "running"} /\ ~HasProducts(d) /\ ready[d] /\ d \notin refused
      => Attended(d)

\* Whatever edits and decisions overlap: an approved product, and an entry of a
\* snapshot, was approved by somebody, and shows what a reviewer had read when
\* approving it.  The second read of update_product is what brings the values of
\* the copy back, however old the copy is.  The exception is the window the code
\* leaves open: a row that another review wrote between this read and the UPDATE
\* may become a mixture of both, approved although nobody has read it so.
WasRead(e) ==
  e \in vouched \cup torn /\ \E v \in vouched : v.product = e.product

ApprovedWasRead ==
  /\ \A p \in Approved : WasRead([product |-> p, text |-> products[p].text])
  /\ \A s \in snapshots : s.products # {} /\ \A e \in s.products : WasRead(e)
=============================================================================
