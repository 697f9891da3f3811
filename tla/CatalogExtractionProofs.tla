---------------------- MODULE CatalogExtractionProofs ----------------------
(***************************************************************************)
(* Theorems about CatalogExtraction, for any documents, items, fields,     *)
(* values, requests, workers, reviewers, faults and bounds.                *)
(***************************************************************************)
EXTENDS CatalogExtraction, FiniteSetTheorems, TLAPS

-----------------------------------------------------------------------------
(* The inductive invariant *)

\* An answer that was counted has left products, and they stay.
AnswersInv ==
  \A d \in Documents : answers[d] \in {0, 1} /\ (answers[d] = 1 => HasProducts(d))

\* What r has in hand: a copy of a product that exists; what it is to become, and
\* the row as it still is unless somebody has overtaken r; or what was read.
GoodReview(r, v) ==
  /\ v.at \in {"product", "update"} => v.product \in ProductIds /\ Exists(v.product)
  /\ v.at = "product" => v.seen \in Product
  /\ v.at = "update" =>
       /\ v.wanted \in Product /\ v.found \in Product
       /\ r \notin overtaken => v.found = products[v.product]
  /\ v.at \in {"version", "snapshot"} => v.entries # {} /\ \A e \in v.entries : WasRead(e)

ReviewInv == ApprovedWasRead /\ \A r \in Reviewers : GoodReview(r, review[r])

\* A worker holds a message of the broker, and holds it alone.
HoldingInv ==
  /\ \A w \in Workers : worker[w].at = "idle" => worker[w].message = Absent
  /\ \A w \in Workers : worker[w].at # "idle" => worker[w].message \in broker
  /\ \A v, w \in Workers :
       v # w /\ worker[v].at # "idle" => worker[v].message # worker[w].message
  /\ \A w \in Workers : worker[w].at = "retrying" => worker[w].message.try < MaxRetries

\* A request has one message for a document at a time, and none for those it is
\* still to publish.
MessagesInv ==
  /\ \A m, n \in broker : m.from = n.from /\ m.doc = n.doc => m = n
  /\ \A q \in Requests :
       /\ request[q].at # "publish" => request[q].left = {}
       /\ \A m \in broker : m.from = q =>
            request[q].at # "write" /\ m.doc \notin request[q].left

\* The snapshots can be counted, which numbers them.
SnapshotsInv == IsFiniteSet(snapshots)

IInv ==
  /\ TypeOK /\ AnswersInv /\ ReviewInv /\ SnapshotsInv
  /\ HoldingInv /\ MessagesInv /\ OpenRunsAreAttended

-----------------------------------------------------------------------------
(* Facts about single workers *)

\* A worker that is busy holds a message, whose document it works for.
LEMMA Holds ==
  ASSUME TypeOK, HoldingInv, NEW w \in Workers, worker[w].at # "idle"
  PROVE  /\ worker[w].message \in Message /\ worker[w].message \in broker
         /\ DocOf(w) \in Documents
         /\ worker[w].message.try \in 0..MaxRetries
BY NamesAssumption DEF TypeOK, HoldingInv, Message, DocOf

\* Going on changes the stage of the worker and nothing else.
LEMMA Gone ==
  ASSUME TypeOK, HoldingInv, NEW w \in Workers, worker[w].at # "idle",
         NEW at \in {"taken", "calling", "retrying", "returned"},
         at = "retrying" => worker[w].message.try < MaxRetries,
         Goes(w, at)
  PROVE  /\ worker' \in [Workers -> WorkerState]
         /\ worker'[w].at = at /\ worker'[w].message = worker[w].message
         /\ \A v \in Workers : v # w => worker'[v] = worker[v]
         /\ broker' = broker => HoldingInv'
<1>1. worker' = [worker EXCEPT ![w] = [worker[w] EXCEPT !.at = at]]
  BY DEF Goes
<1>2. [worker[w] EXCEPT !.at = at] \in WorkerState
  BY DEF TypeOK, WorkerState
<1>3. /\ worker' \in [Workers -> WorkerState]
      /\ worker'[w].at = at /\ worker'[w].message = worker[w].message
      /\ \A v \in Workers : v # w => worker'[v] = worker[v]
  BY <1>1, <1>2 DEF TypeOK, WorkerState
<1>4. ASSUME broker' = broker PROVE HoldingInv'
  BY <1>3, <1>4 DEF HoldingInv
<1> QED  BY <1>3, <1>4

\* A worker that lets go of its message is idle, and holds nothing.
LEMMA LetGo ==
  ASSUME TypeOK, HoldingInv, NEW w \in Workers, worker' = [worker EXCEPT ![w] = Idle]
  PROVE  /\ worker' \in [Workers -> WorkerState]
         /\ worker'[w] = Idle
         /\ \A v \in Workers : v # w => worker'[v] = worker[v]
         /\ broker \ {worker[w].message} \subseteq broker' => HoldingInv'
<1>1. Idle \in WorkerState
  BY DEF Idle, WorkerState
<1>2. /\ worker' \in [Workers -> WorkerState]
      /\ worker'[w] = Idle
      /\ \A v \in Workers : v # w => worker'[v] = worker[v]
  BY <1>1 DEF TypeOK
<1>3. ASSUME broker \ {worker[w].message} \subseteq broker' PROVE HoldingInv'
  <2>1. \A v \in Workers : v # w /\ worker[v].at # "idle" => worker[v].message \in broker'
    BY <1>3 DEF HoldingInv
  <2>2. \A u, v \in Workers : u # v /\ worker'[u].at # "idle" => worker'[u].message # worker'[v].message
    <3> SUFFICES ASSUME NEW u \in Workers, NEW v \in Workers, u # v, worker'[u].at # "idle"
                 PROVE  worker'[u].message # worker'[v].message
      OBVIOUS
    <3>1. u # w /\ worker'[u] = worker[u]
      BY <1>2 DEF Idle
    <3>2. worker[u].message # Absent
      BY <3>1, Holds, NamesAssumption
    <3> QED  BY <1>2, <3>1, <3>2 DEF HoldingInv, Idle
  <2> QED  BY <1>2, <2>1, <2>2 DEF HoldingInv, Idle
<1> QED  BY <1>2, <1>3

-----------------------------------------------------------------------------
(* Every step keeps the invariant *)

LEMMA InitInv == Init => IInv
<1> SUFFICES ASSUME Init PROVE IInv
  OBVIOUS
<1>1. TypeOK
  <2>1. request \in [Requests -> RequestState]
    BY DEF Init, RequestState, NoRequest, Plan
  <2>2. worker \in [Workers -> WorkerState] /\ review \in [Reviewers -> ReviewState]
    BY BoundsAssumption DEF Init, Idle, WorkerState, NoReview, ReviewState
  <2> QED  BY <2>1, <2>2 DEF Init, TypeOK, RunStatus
<1>2. AnswersInv
  BY DEF Init, AnswersInv
<1>3. ReviewInv
  BY DEF Init, ReviewInv, GoodReview, ApprovedWasRead, Approved, Existing, Exists, NoReview
<1>4. HoldingInv /\ MessagesInv
  BY DEF Init, HoldingInv, MessagesInv, Idle, NoRequest
<1>5. OpenRunsAreAttended
  BY DEF Init, OpenRunsAreAttended
<1>6. SnapshotsInv
  BY FS_EmptySet DEF Init, SnapshotsInv
<1> QED  BY <1>1, <1>2, <1>3, <1>4, <1>5, <1>6 DEF IInv

\* The review reads and writes products and snapshots only.
LEMMA ExtractionKept ==
  ASSUME IInv, UNCHANGED Extraction,
         \A p \in ProductIds : Exists(p) => Exists(p)'
  PROVE  AnswersInv' /\ HoldingInv' /\ MessagesInv' /\ OpenRunsAreAttended'
<1>1. UNCHANGED <<ready, run, request, broker, worker, answers, refused, crashes>>
  BY DEF Extraction
<1>2. \A d \in Documents : HasProducts(d) => HasProducts(d)'
  BY DEF HasProducts, ProductIds
<1>3. AnswersInv'
  BY <1>1, <1>2 DEF IInv, AnswersInv
<1>4. HoldingInv' /\ MessagesInv'
  BY <1>1 DEF IInv, HoldingInv, MessagesInv
<1>5. \A d \in Documents : Attended(d) <=> Attended(d)'
  BY <1>1 DEF Attended, Held, DocOf
<1>6. OpenRunsAreAttended'
  BY <1>1, <1>2, <1>5 DEF IInv, OpenRunsAreAttended
<1> QED  BY <1>3, <1>4, <1>6

\* Requests, and workers that store nothing, leave the review alone.
LEMMA ReviewKept ==
  ASSUME IInv, UNCHANGED Review
  PROVE  /\ AnswersInv' /\ ReviewInv' /\ SnapshotsInv'
         /\ \A d \in Documents : HasProducts(d) <=> HasProducts(d)'
<1>1. UNCHANGED <<products, answers, snapshots, review, vouched, overtaken, torn>>
  BY DEF Review, Reviewed
<1>2. \A d \in Documents : HasProducts(d) <=> HasProducts(d)'
  BY <1>1 DEF HasProducts, Exists
<1>3. AnswersInv'
  BY <1>1, <1>2 DEF IInv, AnswersInv
<1>4. ReviewInv'
  BY <1>1 DEF IInv, ReviewInv, GoodReview, ApprovedWasRead, WasRead, Approved, Existing, Exists
<1>5. SnapshotsInv'
  BY <1>1 DEF IInv, SnapshotsInv
<1> QED  BY <1>2, <1>3, <1>4, <1>5

LEMMA RequestReadsKeepsInv ==
  ASSUME IInv, NEW q \in Requests, RequestReads(q)
  PROVE  IInv'
<1>1. UNCHANGED <<ready, run, broker, worker, refused, crashes>> /\ UNCHANGED Review
  BY DEF RequestReads
<1> DEFINE plan == [d \in Documents |-> IF ready[d] THEN "unread" ELSE "skip"]
           new == [at |-> "write", left |-> {}, plan |-> plan]
<1>2. request' = [request EXCEPT ![q] = new] /\ new \in RequestState
  BY DEF RequestReads, RequestState, Plan
<1>3. TypeOK'
  BY <1>1, <1>2 DEF IInv, TypeOK, Review, Reviewed
<1>4. MessagesInv'
  BY <1>1, <1>2 DEF IInv, MessagesInv, TypeOK, RequestReads
<1>5. HoldingInv'
  BY <1>1 DEF IInv, HoldingInv
<1>6. \A d \in Documents : Attended(d) => Attended(d)'
  <2>1. request[q].left = {}
    BY DEF RequestReads, IInv, MessagesInv
  <2> QED  BY <1>1, <1>2, <2>1 DEF IInv, TypeOK, Attended, Held, DocOf
<1>7. OpenRunsAreAttended'
  BY <1>1, <1>6, ReviewKept DEF IInv, OpenRunsAreAttended
<1> QED  BY <1>1, <1>3, <1>4, <1>5, <1>7, ReviewKept DEF IInv

LEMMA RequestReadsRunKeepsInv ==
  ASSUME IInv, NEW q \in Requests, NEW d \in Documents, RequestReadsRun(q, d)
  PROVE  IInv'
<1>1. UNCHANGED <<ready, run, broker, worker, refused, crashes>> /\ UNCHANGED Review
  BY DEF RequestReadsRun
<1>2. PICK new \in RequestState :
        /\ request' = [request EXCEPT ![q] = new]
        /\ new.at = request[q].at /\ new.left = request[q].left
  <2> DEFINE plan == [request[q].plan EXCEPT ![d] = PlanFor(d)]
             after == [request[q] EXCEPT !.plan = plan]
  <2>1. PlanFor(d) \in Plan
    BY DEF PlanFor, Plan
  <2>2. plan \in [Documents -> Plan]
    BY <2>1 DEF IInv, TypeOK, RequestState
  <2> HIDE DEF plan
  <2>3. after \in RequestState /\ after.at = request[q].at /\ after.left = request[q].left
    BY <2>2 DEF IInv, TypeOK, RequestState
  <2>4. request' = [request EXCEPT ![q] = after]
    BY DEF RequestReadsRun, plan
  <2> QED  BY <2>3, <2>4
<1>3. /\ request' \in [Requests -> RequestState]
      /\ \A p \in Requests : request'[p].at = request[p].at /\ request'[p].left = request[p].left
  BY <1>2 DEF IInv, TypeOK
<1>4. TypeOK'
  BY <1>1, <1>3 DEF IInv, TypeOK, Review, Reviewed
<1>5. MessagesInv' /\ HoldingInv'
  BY <1>1, <1>3 DEF IInv, MessagesInv, HoldingInv
<1>6. \A c \in Documents : Attended(c) => Attended(c)'
  BY <1>1, <1>3 DEF Attended, Held, DocOf
<1>7. OpenRunsAreAttended'
  BY <1>1, <1>6, ReviewKept DEF IInv, OpenRunsAreAttended
<1> QED  BY <1>1, <1>4, <1>5, <1>7, ReviewKept DEF IInv

LEMMA RequestCommitsKeepsInv ==
  ASSUME IInv, NEW q \in Requests, RequestCommits(q)
  PROVE  IInv'
<1>1. UNCHANGED <<ready, broker, worker, refused, crashes>> /\ UNCHANGED Review
  BY DEF RequestCommits
<1>2. PICK new \in RequestState :
        /\ request' = [request EXCEPT ![q] = new]
        /\ \/ run' = run /\ new.at = "idle" /\ new.left = {}
           \/ /\ run' = RunsRequested(Planned(q)) /\ new.left = Planned(q)
              /\ new.at # "write" /\ (new.at # "publish" => new.left = {})
  <2>1. Planned(q) \subseteq Documents
    BY DEF Planned
  <2>2. NoRequest \in RequestState
    BY DEF NoRequest, RequestState, Plan
  <2> DEFINE publish == [NoRequest EXCEPT !.at = "publish", !.left = Planned(q)]
  <2>3. publish \in RequestState /\ publish.at = "publish" /\ publish.left = Planned(q)
    BY <2>1 DEF NoRequest, RequestState, Plan
  <2>4. NoRequest.at = "idle" /\ NoRequest.left = {}
    BY DEF NoRequest
  <2>5. CASE Conflicts(q) \/ Planned(q) = {}
    <3>1. request' = [request EXCEPT ![q] = NoRequest]
          /\ (run' = run \/ (run' = RunsRequested(Planned(q)) /\ Planned(q) = {}))
      BY <2>5 DEF RequestCommits
    <3> QED  BY <2>2, <2>4, <3>1
  <2>6. CASE ~Conflicts(q) /\ Planned(q) # {}
    <3>1. request' = [request EXCEPT ![q] = publish] /\ run' = RunsRequested(Planned(q))
      BY <2>6 DEF RequestCommits
    <3> QED  BY <2>3, <3>1
  <2> QED  BY <2>5, <2>6
<1>3. run' \in [Documents -> RunStatus] /\ \A d \in Documents : d \notin new.left => run'[d] = run[d]
  BY <1>2 DEF RunsRequested, RunStatus, IInv, TypeOK
<1>4. TypeOK'
  BY <1>1, <1>2, <1>3 DEF IInv, TypeOK, Review, Reviewed
<1>5. request[q].left = {} /\ \A m \in broker : m.from # q
  BY DEF RequestCommits, IInv, MessagesInv
<1>6. MessagesInv'
  BY <1>1, <1>2, <1>5 DEF IInv, MessagesInv, TypeOK
<1>7. HoldingInv'
  BY <1>1 DEF IInv, HoldingInv
<1>8. \A d \in Documents : Attended(d) => Attended(d)'
  BY <1>1, <1>2, <1>5 DEF IInv, TypeOK, Attended, Held, DocOf
<1>9. \A d \in new.left : Attended(d)'
  BY <1>2 DEF IInv, TypeOK, Attended
<1>10. OpenRunsAreAttended'
  BY <1>1, <1>3, <1>8, <1>9, ReviewKept DEF IInv, OpenRunsAreAttended
<1> QED  BY <1>1, <1>4, <1>6, <1>7, <1>10, ReviewKept DEF IInv

\* What a request does with the documents it has left.
LEMMA LeftOver ==
  ASSUME TypeOK, NEW q \in Requests, NEW left \in SUBSET Documents, request[q].at = "publish",
         request' = Without(q, left)
  PROVE  /\ request' \in [Requests -> RequestState]
         /\ request'[q].at # "write" /\ request'[q].left = left
         /\ request'[q].at # "publish" => left = {}
         /\ \A p \in Requests : p # q => request'[p] = request[p]
<1> DEFINE new == IF left = {} THEN NoRequest ELSE [request[q] EXCEPT !.left = left]
<1>1. request' = [request EXCEPT ![q] = new]
  BY DEF Without
<1>2. new \in RequestState /\ new.at # "write" /\ new.left = left /\ (new.at # "publish" => left = {})
  BY DEF TypeOK, RequestState, NoRequest, Plan
<1> QED  BY <1>1, <1>2 DEF TypeOK

LEMMA PublishKeepsInv ==
  ASSUME IInv, NEW q \in Requests, NEW d \in Documents, Publish(q, d)
  PROVE  IInv'
<1>1. UNCHANGED <<ready, run, worker, refused, crashes>> /\ UNCHANGED Review
      /\ broker' = broker \cup {Task(q, d)} /\ request' = Without(q, request[q].left \ {d})
      /\ request[q].at = "publish" /\ d \in request[q].left
  BY DEF Publish
<1>2. Task(q, d) \in Message /\ Task(q, d).from = q /\ Task(q, d).doc = d
  BY BoundsAssumption DEF Task, Message
<1>3. request[q].left \ {d} \in SUBSET Documents
  BY DEF IInv, TypeOK, RequestState
<1>4. /\ request' \in [Requests -> RequestState]
      /\ request'[q].at # "write" /\ request'[q].left = request[q].left \ {d}
      /\ request'[q].at # "publish" => request'[q].left = {}
      /\ \A p \in Requests : p # q => request'[p] = request[p]
  BY <1>1, <1>3, LeftOver DEF IInv
<1>5. TypeOK'
  BY <1>1, <1>2, <1>4 DEF IInv, TypeOK, Review, Reviewed
<1>6. Task(q, d) \notin broker /\ \A m \in broker : m.from = q => m.doc # d
  BY <1>1, <1>2 DEF IInv, MessagesInv
<1>7. MessagesInv'
  <2>1. \A m, n \in broker' : m.from = n.from /\ m.doc = n.doc => m = n
    BY <1>1, <1>2, <1>6 DEF IInv, MessagesInv
  <2>2. \A p \in Requests : \A m \in broker' : m.from = p =>
          request'[p].at # "write" /\ m.doc \notin request'[p].left
    BY <1>1, <1>2, <1>4 DEF IInv, MessagesInv
  <2> QED  BY <1>4, <2>1, <2>2 DEF IInv, MessagesInv
<1>8. HoldingInv'
  BY <1>1 DEF IInv, HoldingInv
<1>9. ~Held(Task(q, d))
  BY <1>2, <1>6, NamesAssumption DEF Held, IInv, HoldingInv
<1>10. Attended(d)'
  BY <1>1, <1>2, <1>9 DEF Attended, Held
<1>11. \A c \in Documents : c # d /\ Attended(c) => Attended(c)'
  BY <1>1, <1>4 DEF Attended, Held, DocOf
<1>12. OpenRunsAreAttended'
  BY <1>1, <1>10, <1>11, ReviewKept DEF IInv, OpenRunsAreAttended
<1> QED  BY <1>1, <1>5, <1>7, <1>8, <1>12, ReviewKept DEF IInv

LEMMA PublishRaisesKeepsInv ==
  ASSUME IInv, NEW q \in Requests, PublishRaises(q)
  PROVE  IInv'
<1>1. UNCHANGED <<ready, run, broker, worker, crashes>> /\ UNCHANGED Review
      /\ refused' = refused \cup request[q].left
      /\ request' = [request EXCEPT ![q] = NoRequest]
  BY DEF PublishRaises
<1>2. NoRequest \in RequestState /\ NoRequest.at = "idle" /\ NoRequest.left = {}
  BY DEF NoRequest, RequestState, Plan
<1>3. TypeOK'
  BY <1>1, <1>2 DEF IInv, TypeOK, Review, Reviewed, RequestState
<1>4. MessagesInv'
  BY <1>1, <1>2 DEF IInv, MessagesInv, TypeOK
<1>5. HoldingInv'
  BY <1>1 DEF IInv, HoldingInv
<1>6. \A d \in Documents : Attended(d) => Attended(d)' \/ d \in refused'
  BY <1>1 DEF IInv, TypeOK, Attended, Held, DocOf
<1>7. OpenRunsAreAttended'
  BY <1>1, <1>6, ReviewKept DEF IInv, OpenRunsAreAttended
<1> QED  BY <1>1, <1>3, <1>4, <1>5, <1>7, ReviewKept DEF IInv

LEMMA DocumentDeletedKeepsInv ==
  ASSUME IInv, NEW d \in Documents, DocumentDeleted(d)
  PROVE  IInv'
<1>1. UNCHANGED <<run, request, broker, worker, refused, crashes>> /\ UNCHANGED Review
      /\ ready' = [ready EXCEPT ![d] = FALSE]
  BY DEF DocumentDeleted
<1>2. TypeOK'
  BY <1>1 DEF IInv, TypeOK, Review, Reviewed
<1>3. HoldingInv' /\ MessagesInv'
  BY <1>1 DEF IInv, HoldingInv, MessagesInv
<1>4. \A c \in Documents : ready'[c] => ready[c]
  BY <1>1 DEF IInv, TypeOK
<1>5. \A c \in Documents : Attended(c) => Attended(c)'
  BY <1>1 DEF Attended, Held, DocOf
<1>6. OpenRunsAreAttended'
  BY <1>1, <1>4, <1>5, ReviewKept DEF IInv, OpenRunsAreAttended
<1> QED  BY <1>1, <1>2, <1>3, <1>6, ReviewKept DEF IInv

LEMMA ReceiveKeepsInv ==
  ASSUME IInv, NEW w \in Workers, NEW m \in broker, Receive(w, m)
  PROVE  IInv'
<1>1. UNCHANGED <<ready, run, request, broker, refused, crashes>> /\ UNCHANGED Review
      /\ ~Held(m) /\ worker[w].at = "idle" /\ m \in Message
  BY DEF Receive, IInv, TypeOK
<1> DEFINE new == [at |-> "taken", message |-> m]
<1>2. worker' = [worker EXCEPT ![w] = new] /\ new \in WorkerState
  BY <1>1 DEF Receive, WorkerState
<1>3. /\ worker' \in [Workers -> WorkerState] /\ worker'[w] = new
      /\ \A v \in Workers : v # w => worker'[v] = worker[v]
  BY <1>2 DEF IInv, TypeOK
<1>4. TypeOK'
  BY <1>1, <1>3 DEF IInv, TypeOK, Review, Reviewed
<1>5. HoldingInv'
  BY <1>1, <1>3 DEF IInv, HoldingInv, Held
<1>6. MessagesInv'
  BY <1>1 DEF IInv, MessagesInv
<1>7. \A d \in Documents : Attended(d) => Attended(d)'
  <2> SUFFICES ASSUME NEW d \in Documents, Attended(d) PROVE Attended(d)'
    OBVIOUS
  <2>1. CASE \E q \in Requests : d \in request[q].left
    BY <1>1, <2>1 DEF Attended
  <2>2. CASE m.doc = d
    BY <1>3, <2>2 DEF Attended, DocOf
  <2>3. ASSUME NEW n \in broker, n.doc = d, ~Held(n), n # m PROVE Attended(d)'
    BY <1>1, <1>3, <2>3 DEF Attended, Held
  <2>4. ASSUME NEW v \in Workers, worker[v].at \in {"taken", "calling", "retrying"},
               DocOf(v) = d
        PROVE  Attended(d)'
    BY <1>1, <1>3, <2>4 DEF Attended, DocOf
  <2> QED  BY <2>1, <2>2, <2>3, <2>4 DEF Attended
<1>8. OpenRunsAreAttended'
  BY <1>1, <1>7, ReviewKept DEF IInv, OpenRunsAreAttended
<1> QED  BY <1>1, <1>4, <1>5, <1>6, <1>8, ReviewKept DEF IInv

\* While w goes on with its message, everybody else's documents are attended to,
\* and w's own as long as it has not returned.
LEMMA GoneAttended ==
  ASSUME TypeOK, HoldingInv, NEW w \in Workers, worker[w].at # "idle",
         NEW at \in {"taken", "calling", "retrying", "returned"},
         at = "retrying" => worker[w].message.try < MaxRetries,
         Goes(w, at), UNCHANGED <<request, broker>>
  PROVE  /\ \A d \in Documents : d # DocOf(w) /\ Attended(d) => Attended(d)'
         /\ \A d \in Documents : d = DocOf(w) /\ at # "returned" => Attended(d)'
<1>1. /\ worker'[w].at = at /\ worker'[w].message = worker[w].message
      /\ \A v \in Workers : v # w => worker'[v] = worker[v]
  BY Gone
<1>2. \A m \in broker : Held(m)' <=> Held(m)
  BY <1>1 DEF Held
<1>3. \A v \in Workers : DocOf(v)' = DocOf(v)
  BY <1>1 DEF DocOf
<1>4. \A d \in Documents : d # DocOf(w) /\ Attended(d) => Attended(d)'
  BY <1>1, <1>2, <1>3 DEF Attended
<1>5. \A d \in Documents : d = DocOf(w) /\ at # "returned" => Attended(d)'
  BY <1>1, <1>3 DEF Attended
<1> QED  BY <1>4, <1>5

\* What AfterFailure says.
LEMMA FailureEnds ==
  ASSUME NEW w \in Workers
  PROVE  /\ AfterFailure(w) \in {"retrying", "returned"}
         /\ AfterFailure(w) = "retrying" => worker[w].message.try < MaxRetries
BY DEF AfterFailure

LEMMA MissingKeyKeepsInv ==
  ASSUME IInv, NEW w \in Workers, MissingKey(w)
  PROVE  IInv'
<1> DEFINE at == AfterFailure(w)
<1>1. UNCHANGED <<ready, run, request, broker, crashes>> /\ UNCHANGED Review
      /\ worker[w].at = "taken" /\ Goes(w, at)
      /\ refused' = IF at = "returned" THEN refused \cup {DocOf(w)} ELSE refused
  BY DEF MissingKey
<1>2. at \in {"taken", "calling", "retrying", "returned"}
      /\ (at = "retrying" => worker[w].message.try < MaxRetries)
  BY FailureEnds
<1>3. TypeOK /\ HoldingInv /\ MessagesInv /\ OpenRunsAreAttended
  BY DEF IInv
<1>4. DocOf(w) \in Documents
  BY <1>1, <1>3, Holds
<1> HIDE DEF at
<1>5. worker' \in [Workers -> WorkerState] /\ HoldingInv'
  BY <1>1, <1>2, <1>3, Gone
<1>6. TypeOK'
  BY <1>1, <1>3, <1>4, <1>5 DEF TypeOK, Review, Reviewed
<1>7. MessagesInv'
  BY <1>1, <1>3 DEF MessagesInv
<1>8. \A d \in Documents : Attended(d) => Attended(d)' \/ d \in refused'
  BY <1>1, <1>2, <1>3, GoneAttended
<1>9. OpenRunsAreAttended'
  BY <1>1, <1>3, <1>8, ReviewKept DEF OpenRunsAreAttended
<1> QED  BY <1>1, <1>5, <1>6, <1>7, <1>9, ReviewKept DEF IInv

LEMMA PromptMissingKeepsInv ==
  ASSUME IInv, NEW w \in Workers, PromptMissing(w)
  PROVE  IInv'
<1>1. UNCHANGED <<ready, run, request, broker, crashes>> /\ UNCHANGED Review
      /\ worker[w].at = "calling" /\ Goes(w, "returned") /\ refused' = refused \cup {DocOf(w)}
  BY DEF PromptMissing
<1>2. TypeOK /\ HoldingInv /\ MessagesInv /\ OpenRunsAreAttended
  BY DEF IInv
<1>3. DocOf(w) \in Documents
  BY <1>1, <1>2, Holds
<1>4. worker' \in [Workers -> WorkerState] /\ HoldingInv'
  BY <1>1, <1>2, Gone
<1>5. TypeOK'
  BY <1>1, <1>2, <1>3, <1>4 DEF TypeOK, Review, Reviewed
<1>6. MessagesInv'
  BY <1>1, <1>2 DEF MessagesInv
<1>7. \A d \in Documents : Attended(d) => Attended(d)' \/ d \in refused'
  BY <1>1, <1>2, GoneAttended
<1>8. OpenRunsAreAttended'
  BY <1>1, <1>2, <1>7, ReviewKept DEF OpenRunsAreAttended
<1> QED  BY <1>1, <1>4, <1>5, <1>6, <1>8, ReviewKept DEF IInv

\* A worker that goes on and writes the run of its document alone, so that the
\* run is open only if the worker has not returned.
LEMMA RunStepKeepsInv ==
  ASSUME IInv, NEW w \in Workers, worker[w].at # "idle",
         NEW at \in {"taken", "calling", "retrying", "returned"},
         at = "retrying" => worker[w].message.try < MaxRetries,
         Goes(w, at), UNCHANGED <<ready, request, broker, refused, crashes>>, UNCHANGED Review,
         run' \in [Documents -> RunStatus],
         \A d \in Documents : d # DocOf(w) => run'[d] = run[d],
         at = "returned" =>
           run'[DocOf(w)] \notin {"queued", "running"} \/ ~ready[DocOf(w)]
  PROVE  IInv'
<1>1. TypeOK /\ HoldingInv /\ MessagesInv /\ OpenRunsAreAttended
  BY DEF IInv
<1>2. worker' \in [Workers -> WorkerState] /\ HoldingInv'
  BY <1>1, Gone
<1>3. TypeOK'
  BY <1>1, <1>2 DEF TypeOK, Review, Reviewed
<1>4. MessagesInv'
  BY <1>1 DEF MessagesInv
<1>5. /\ \A d \in Documents : d # DocOf(w) /\ Attended(d) => Attended(d)'
      /\ \A d \in Documents : d = DocOf(w) /\ at # "returned" => Attended(d)'
  BY <1>1, GoneAttended
<1>6. OpenRunsAreAttended'
  BY <1>1, <1>5, ReviewKept DEF OpenRunsAreAttended
<1> QED  BY <1>2, <1>3, <1>4, <1>6, ReviewKept DEF IInv

LEMMA StartKeepsInv ==
  ASSUME IInv, NEW w \in Workers, Start(w)
  PROVE  IInv'
<1> DEFINE d == DocOf(w)
           starts == run[d] # "completed" /\ ready[d]
<1>1. worker[w].at = "taken" /\ d \in Documents
  BY Holds DEF Start, IInv
<1>2. UNCHANGED <<ready, request, broker, refused, crashes>> /\ UNCHANGED Review
      /\ run' = (IF starts THEN RunStarted(d) ELSE run)
      /\ Goes(w, IF starts THEN "calling" ELSE "returned")
  BY DEF Start
<1> HIDE DEF d
<1>3. run' \in [Documents -> RunStatus] /\ \A c \in Documents : c # d => run'[c] = run[c]
  BY <1>1, <1>2 DEF RunStarted, RunStatus, IInv, TypeOK
<1>4. ~starts => run'[d] \notin {"queued", "running"} \/ ~ready[d]
  BY <1>2
<1>5. CASE starts
  BY <1>1, <1>2, <1>3, <1>5, RunStepKeepsInv DEF d
<1>6. CASE ~starts
  BY <1>1, <1>2, <1>3, <1>4, <1>6, RunStepKeepsInv DEF d
<1> QED  BY <1>5, <1>6

LEMMA FailKeepsInv ==
  ASSUME IInv, NEW w \in Workers, Fail(w)
  PROVE  IInv'
<1>1. worker[w].at = "calling" /\ DocOf(w) \in Documents
  BY Holds DEF Fail, IInv
<1>2. UNCHANGED <<ready, request, broker, refused, crashes>> /\ UNCHANGED Review
      /\ run' = RunFailed(DocOf(w))
  BY DEF Fail
<1>3. PICK at \in {"retrying", "returned"} :
        Goes(w, at) /\ (at = "retrying" => worker[w].message.try < MaxRetries)
  BY FailureEnds DEF Fail
<1>4. run' \in [Documents -> RunStatus] /\ run'[DocOf(w)] = "failed"
      /\ \A d \in Documents : d # DocOf(w) => run'[d] = run[d]
  BY <1>1, <1>2 DEF RunFailed, RunStatus, IInv, TypeOK
<1> QED  BY <1>1, <1>2, <1>3, <1>4, RunStepKeepsInv

LEMMA StoreKeepsInv ==
  ASSUME IInv, NEW w \in Workers, Store(w)
  PROVE  IInv'
<1>1. PICK d \in Documents : d = DocOf(w) /\ worker[w].at = "calling"
  BY Holds DEF Store, IInv
<1>2. UNCHANGED <<ready, request, broker, refused, crashes>> /\ UNCHANGED Reviewed
      /\ Goes(w, "returned")
  BY DEF Store
<1>3. TypeOK /\ HoldingInv /\ MessagesInv /\ OpenRunsAreAttended
      /\ AnswersInv /\ ReviewInv /\ SnapshotsInv
  BY DEF IInv
<1>4. worker' \in [Workers -> WorkerState] /\ HoldingInv'
  BY <1>1, <1>2, <1>3, Gone
<1>5. MessagesInv'
  BY <1>2, <1>3 DEF MessagesInv
<1>6. \A c \in Documents : c # d /\ Attended(c) => Attended(c)'
  BY <1>1, <1>2, <1>3, GoneAttended
<1>7. CASE HasProducts(d)
  <2>1. UNCHANGED <<products, answers, run>>
    BY <1>1, <1>7 DEF Store
  <2>2. UNCHANGED Review /\ TypeOK'
    BY <1>2, <1>3, <1>4, <2>1 DEF TypeOK, Review, Reviewed
  <2>3. OpenRunsAreAttended'
    BY <1>2, <1>3, <1>6, <1>7, <2>1, <2>2, ReviewKept DEF OpenRunsAreAttended
  <2> QED  BY <1>4, <1>5, <2>2, <2>3, ReviewKept DEF IInv
<1>8. CASE ~HasProducts(d)
  <2>1. PICK found \in SUBSET Items, text \in Texts :
          /\ products' = [p \in ProductIds |->
               IF p[1] = d /\ p[2] \in found
                 THEN [status |-> "pending_review", text |-> text] ELSE products[p]]
          /\ answers' = [answers EXCEPT ![d] = IF found = {} THEN @ ELSE @ + 1]
          /\ run' = RunCompleted(d)
    BY <1>1, <1>8 DEF Store
  <2> DEFINE new == [status |-> "pending_review", text |-> text]
  <2>2. new \in Product /\ new # Absent /\ new.status # "approved"
    BY NamesAssumption DEF Product, ProductStatus
  <2> HIDE DEF new
  <2>3. \A p \in ProductIds : products'[p] = new \/ products'[p] = products[p]
    BY <2>1 DEF new
  <2>4. \A i \in found : <<d, i>> \in ProductIds /\ products'[<<d, i>>] = new
    BY <1>1, <2>1 DEF ProductIds, new
  <2>5. products' \in [ProductIds -> Product \cup {Absent}]
    BY <1>3, <2>1, <2>2 DEF TypeOK, new
  <2>6. answers[d] = 0
    BY <1>1, <1>3, <1>8 DEF AnswersInv
  <2>7. answers' \in [Documents -> Nat] /\ answers'[d] = (IF found = {} THEN 0 ELSE 1)
        /\ \A c \in Documents : c # d => answers'[c] = answers[c]
    BY <1>1, <1>3, <2>1, <2>6 DEF TypeOK
  <2>8. run' \in [Documents -> RunStatus] /\ run'[d] = "completed"
        /\ \A c \in Documents : c # d => run'[c] = run[c]
    BY <1>1, <1>3, <2>1 DEF TypeOK, RunCompleted, RunStatus
  <2>9. TypeOK'
    BY <1>2, <1>3, <1>4, <2>5, <2>7, <2>8 DEF TypeOK, Reviewed
  <2>10. \A c \in Documents : HasProducts(c) => HasProducts(c)'
    BY <2>2, <2>3 DEF HasProducts, Exists, ProductIds
  <2>11. AnswersInv'
    <3>1. found # {} => HasProducts(d)'
      BY <2>2, <2>4 DEF HasProducts, Exists
    <3> QED  BY <1>1, <1>3, <2>7, <2>10, <3>1 DEF AnswersInv
  <2>12. ReviewInv'
    <3>1. \A p \in ProductIds : Exists(p) => products'[p] = products[p]
      <4> SUFFICES ASSUME NEW p \in ProductIds, Exists(p) PROVE products'[p] = products[p]
        OBVIOUS
      <4>1. p[1] # d
        BY <1>8 DEF ProductIds, HasProducts
      <4> QED  BY <2>1, <4>1
    <3>2. \A p \in ProductIds : products'[p] # products[p] => products'[p].status # "approved"
      BY <2>2, <2>3
    <3>3. \A p \in Approved' : p \in Approved /\ products'[p] = products[p]
      BY <3>1, <3>2 DEF Approved, Existing, Exists
    <3>4. UNCHANGED <<snapshots, review, vouched, overtaken, torn>>
      BY <1>2 DEF Reviewed
    <3>5. ApprovedWasRead'
      BY <1>3, <3>3, <3>4 DEF ReviewInv, ApprovedWasRead, WasRead
    <3>6. \A p \in ProductIds : Exists(p) => Exists(p)'
      BY <3>1 DEF Exists
    <3>7. \A r \in Reviewers : GoodReview(r, review[r])'
      BY <1>3, <3>1, <3>4, <3>6 DEF ReviewInv, GoodReview, WasRead
    <3> QED  BY <3>5, <3>7 DEF ReviewInv
  <2>13. OpenRunsAreAttended'
    BY <1>2, <1>3, <1>6, <2>8, <2>10 DEF OpenRunsAreAttended
  <2>14. SnapshotsInv'
    BY <1>2, <1>3 DEF SnapshotsInv, Reviewed
  <2> QED  BY <1>4, <1>5, <2>9, <2>11, <2>12, <2>13, <2>14 DEF IInv
<1> QED  BY <1>7, <1>8

\* What a worker held is free again, if it is still there; what the others hold
\* and do is as it was.
LEMMA LetGoAttended ==
  ASSUME TypeOK, HoldingInv, NEW w \in Workers, worker[w].at # "idle",
         worker' = [worker EXCEPT ![w] = Idle], request' = request,
         broker \ {worker[w].message} \subseteq broker'
  PROVE  /\ \A n \in broker' : n = worker[w].message => ~Held(n)'
         /\ \A d \in Documents : d # DocOf(w) /\ Attended(d) => Attended(d)'
         /\ worker[w].at = "returned" =>
              \A d \in Documents : Attended(d) => Attended(d)'
<1>1. /\ worker'[w] = Idle
      /\ \A v \in Workers : v # w => worker'[v] = worker[v]
  BY LetGo
<1>2. worker[w].message \in Message /\ worker[w].message # Absent
  BY Holds, NamesAssumption
<1>3. \A n \in broker' : n = worker[w].message => ~Held(n)'
  BY <1>1, <1>2 DEF Held, HoldingInv, Idle
<1>4. \A n \in broker : n \in broker' /\ ~Held(n) => ~Held(n)'
  BY <1>1, NamesAssumption DEF Held, Idle, TypeOK
<1>5. \A n \in broker : ~Held(n) => n # worker[w].message
  BY DEF Held
<1>6. ASSUME NEW d \in Documents, d # DocOf(w) \/ worker[w].at = "returned", Attended(d)
      PROVE  Attended(d)'
  <2>1. CASE \E q \in Requests : d \in request[q].left
    BY <2>1 DEF Attended
  <2>2. CASE \E n \in broker : n.doc = d /\ ~Held(n)
    BY <1>4, <1>5, <2>2 DEF Attended
  <2>3. ASSUME NEW v \in Workers, worker[v].at \in {"taken", "calling", "retrying"},
               DocOf(v) = d
        PROVE  Attended(d)'
    <3>1. v # w
      BY <1>6, <2>3
    <3> QED  BY <1>1, <2>3, <3>1 DEF Attended, DocOf
  <2> QED  BY <1>6, <2>1, <2>2, <2>3 DEF Attended
<1> QED  BY <1>3, <1>6

LEMMA RetryKeepsInv ==
  ASSUME IInv, NEW w \in Workers, Retry(w)
  PROVE  IInv'
<1> DEFINE m == worker[w].message
           n == [m EXCEPT !.try = @ + 1]
<1>1. UNCHANGED <<ready, run, request, refused, crashes>> /\ UNCHANGED Review
      /\ worker[w].at = "retrying" /\ worker' = [worker EXCEPT ![w] = Idle]
      /\ broker' = (broker \ {m}) \cup {n}
  BY DEF Retry
<1>2. TypeOK /\ HoldingInv /\ MessagesInv /\ OpenRunsAreAttended
  BY DEF IInv
<1>3. m \in Message /\ m \in broker /\ m.try < MaxRetries /\ m.doc = DocOf(w)
  BY <1>1, <1>2, Holds DEF HoldingInv, DocOf
<1>4. n \in Message /\ n.from = m.from /\ n.doc = m.doc /\ n # m
  BY <1>3, BoundsAssumption DEF Message
<1>5. n \notin broker
  BY <1>2, <1>3, <1>4 DEF MessagesInv
<1>6. PICK k \in Message : broker' = (broker \ {m}) \cup {k} /\ k = n
  BY <1>1, <1>4
<1> HIDE DEF n
<1>7. worker' \in [Workers -> WorkerState] /\ HoldingInv' /\ worker'[w] = Idle
      /\ \A v \in Workers : v # w => worker'[v] = worker[v]
  BY <1>1, <1>2, <1>6, LetGo
<1>8. TypeOK'
  BY <1>1, <1>2, <1>6, <1>7 DEF TypeOK, Review, Reviewed
<1>9. MessagesInv'
  <2>1. \A x, y \in broker' : x.from = y.from /\ x.doc = y.doc => x = y
    BY <1>2, <1>3, <1>4, <1>6 DEF MessagesInv
  <2>2. \A q \in Requests : \A x \in broker' : x.from = q =>
          request'[q].at # "write" /\ x.doc \notin request'[q].left
    BY <1>1, <1>2, <1>3, <1>4, <1>6 DEF MessagesInv
  <2> QED  BY <1>1, <1>2, <2>1, <2>2 DEF MessagesInv
<1>10. ~Held(k)'
  <2>1. \A v \in Workers : worker[v].message # k
    BY <1>2, <1>5, <1>6, NamesAssumption DEF HoldingInv
  <2> QED  BY <1>6, <1>7, <2>1, NamesAssumption DEF Held, Idle
<1>11. \A d \in Documents : d = DocOf(w) => Attended(d)'
  BY <1>3, <1>4, <1>6, <1>10 DEF Attended
<1>12. \A d \in Documents : d # DocOf(w) /\ Attended(d) => Attended(d)'
  BY <1>1, <1>2, <1>6, LetGoAttended
<1>13. OpenRunsAreAttended'
  BY <1>1, <1>2, <1>11, <1>12, ReviewKept DEF OpenRunsAreAttended
<1> QED  BY <1>1, <1>7, <1>8, <1>9, <1>13, ReviewKept DEF IInv

LEMMA AcknowledgeKeepsInv ==
  ASSUME IInv, NEW w \in Workers, Acknowledge(w)
  PROVE  IInv'
<1>1. UNCHANGED <<ready, run, request, refused, crashes>> /\ UNCHANGED Review
      /\ worker[w].at = "returned" /\ worker' = [worker EXCEPT ![w] = Idle]
      /\ broker' = broker \ {worker[w].message}
  BY DEF Acknowledge
<1>2. TypeOK /\ HoldingInv /\ MessagesInv /\ OpenRunsAreAttended
  BY DEF IInv
<1>3. worker' \in [Workers -> WorkerState] /\ HoldingInv'
  BY <1>1, <1>2, LetGo
<1>4. TypeOK'
  BY <1>1, <1>2, <1>3 DEF TypeOK, Review, Reviewed
<1>5. MessagesInv'
  BY <1>1, <1>2 DEF MessagesInv
<1>6. \A d \in Documents : Attended(d) => Attended(d)'
  BY <1>1, <1>2, LetGoAttended
<1>7. OpenRunsAreAttended'
  BY <1>1, <1>2, <1>6, ReviewKept DEF OpenRunsAreAttended
<1> QED  BY <1>1, <1>3, <1>4, <1>5, <1>7, ReviewKept DEF IInv

\* The message is still there, so the document of the worker that died is
\* attended to.
LEMMA WorkerDiesKeepsInv ==
  ASSUME IInv, NEW w \in Workers, WorkerDies(w)
  PROVE  IInv'
<1>1. UNCHANGED <<ready, run, request, broker, refused>> /\ UNCHANGED Review
      /\ worker[w].at # "idle" /\ worker' = [worker EXCEPT ![w] = Idle]
      /\ crashes' = crashes + 1
  BY DEF WorkerDies
<1>2. TypeOK /\ HoldingInv /\ MessagesInv /\ OpenRunsAreAttended
  BY DEF IInv
<1>3. PICK m \in broker : m = worker[w].message /\ m.doc = DocOf(w)
  BY <1>1, <1>2, Holds DEF DocOf
<1>4. worker' \in [Workers -> WorkerState] /\ HoldingInv'
  BY <1>1, <1>2, LetGo
<1>5. TypeOK'
  BY <1>1, <1>2, <1>4 DEF TypeOK, Review, Reviewed
<1>6. MessagesInv'
  BY <1>1, <1>2 DEF MessagesInv
<1>7. /\ ~Held(m)'
      /\ \A d \in Documents : d # DocOf(w) /\ Attended(d) => Attended(d)'
  BY <1>1, <1>2, <1>3, LetGoAttended
<1>8. \A d \in Documents : d = DocOf(w) => Attended(d)'
  BY <1>1, <1>3, <1>7 DEF Attended
<1>9. OpenRunsAreAttended'
  BY <1>1, <1>2, <1>7, <1>8, ReviewKept DEF OpenRunsAreAttended
<1> QED  BY <1>1, <1>4, <1>5, <1>6, <1>9, ReviewKept DEF IInv

-----------------------------------------------------------------------------
(* The review *)

\* A review that writes no product.
LEMMA ReadingKeepsInv ==
  ASSUME IInv, NEW r \in Reviewers, UNCHANGED Extraction,
         UNCHANGED <<products, vouched, overtaken, torn>>, reviews' \in Nat,
         NEW new \in ReviewState, review' = [review EXCEPT ![r] = new], GoodReview(r, new),
         snapshots' \subseteq Snapshot, IsFiniteSet(snapshots'),
         \A s \in snapshots' :
           s \in snapshots \/ (s.products # {} /\ \A e \in s.products : WasRead(e))
  PROVE  IInv'
<1>1. AnswersInv' /\ HoldingInv' /\ MessagesInv' /\ OpenRunsAreAttended'
  BY ExtractionKept DEF Exists
<1>2. TypeOK'
  BY DEF IInv, TypeOK, Extraction
<1>3. \A e : WasRead(e)' <=> WasRead(e)
  BY DEF WasRead
<1>4. ApprovedWasRead'
  BY <1>3 DEF IInv, ReviewInv, ApprovedWasRead, Approved, Existing, Exists
<1>5. \A o \in Reviewers : GoodReview(o, review[o])'
  BY <1>3 DEF IInv, TypeOK, ReviewInv, GoodReview, Exists
<1> QED  BY <1>1, <1>2, <1>4, <1>5 DEF IInv, SnapshotsInv, ReviewInv

\* An update leaves a product, which is approved only if it was or is to be; and
\* exactly what is wanted if the row is still the one that was found.
LEMMA WhatIsFlushed ==
  ASSUME NEW wanted \in Product, NEW found \in Product, NEW stored \in Product
  PROVE  LET row == Flushed(wanted, found, stored) IN
         /\ row \in Product
         /\ row.status = wanted.status \/ row.status = stored.status
         /\ found = stored => row = wanted
<1> DEFINE row == Flushed(wanted, found, stored)
           text == [f \in Fields |-> Column(wanted.text[f], found.text[f], stored.text[f])]
           status == Column(wanted.status, found.status, stored.status)
<1>1. row = [status |-> status, text |-> text]
  BY DEF Flushed
<1>2. status \in ProductStatus /\ (status = wanted.status \/ status = stored.status)
      /\ (found = stored => status = wanted.status)
  BY DEF Column, Product
<1>3. wanted.text \in [Fields -> Values] /\ stored.text \in [Fields -> Values]
  BY DEF Product, Texts
<1>4. text \in Texts
  BY <1>3 DEF Column, Texts
<1>5. ASSUME found = stored PROVE text = wanted.text
  BY <1>3, <1>5 DEF Column
<1>6. wanted = [status |-> wanted.status, text |-> wanted.text]
  BY DEF Product
<1> HIDE DEF text, status
<1> QED  BY <1>1, <1>2, <1>4, <1>5, <1>6 DEF Product

\* The update of a row that nobody has overtaken brings what was vouched for; any
\* other one is known to be torn.
LEMMA UpdatesKeepsInv ==
  ASSUME IInv, NEW r \in Reviewers, Updates(r)
  PROVE  IInv'
<1>1. TypeOK /\ ReviewInv /\ SnapshotsInv
  BY DEF IInv
<1>2. review[r].at = "update" /\ GoodReview(r, review[r])
  BY <1>1 DEF Updates, ReviewInv
<1>3. PICK p \in ProductIds, wanted \in Product, found \in Product :
        /\ p = review[r].product /\ wanted = review[r].wanted /\ found = review[r].found
        /\ Exists(p) /\ (r \notin overtaken => found = products[p])
  BY <1>2 DEF GoodReview
<1>4. products[p] \in Product
  BY <1>1, <1>3 DEF TypeOK, Exists
<1>5. PICK row \in Product :
        /\ row = Flushed(wanted, found, products[p])
        /\ row.status = wanted.status \/ row.status = products[p].status
        /\ r \notin overtaken => row = wanted
  BY <1>3, <1>4, WhatIsFlushed
<1> DEFINE approval == [product |-> p, text |-> wanted.text]
           left == [product |-> p, text |-> row.text]
<1>6. /\ products' = [products EXCEPT ![p] = row]
      /\ vouched' = IF wanted.status = "approved" THEN vouched \cup {approval} ELSE vouched
      /\ torn' = IF r \in overtaken THEN torn \cup {left} ELSE torn
      /\ overtaken' = (overtaken \ {r}) \cup Others(r, p)
      /\ Finish(r) /\ UNCHANGED <<snapshots, reviews>> /\ UNCHANGED Extraction
  BY <1>3, <1>5 DEF Updates
<1>7. approval \in Entry /\ left \in Entry /\ approval.product = p /\ left.product = p
  BY DEF Entry, Product
<1>8. row # Absent
  BY NamesAssumption
<1>9. products' \in [ProductIds -> Product \cup {Absent}] /\ products'[p] = row
      /\ \A o \in ProductIds : o # p => products'[o] = products[o]
  BY <1>1, <1>6 DEF TypeOK
<1>10. \A o \in ProductIds : Exists(o) => Exists(o)'
  BY <1>8, <1>9 DEF Exists
<1>11. AnswersInv' /\ HoldingInv' /\ MessagesInv' /\ OpenRunsAreAttended'
  BY <1>6, <1>10, ExtractionKept
<1>12. NoReview \in ReviewState /\ NoReview.at = "idle"
  BY BoundsAssumption DEF NoReview, ReviewState
<1>13. review' \in [Reviewers -> ReviewState] /\ review'[r] = NoReview
       /\ \A o \in Reviewers : o # r => review'[o] = review[o]
  BY <1>1, <1>6, <1>12 DEF Finish, TypeOK
<1>14. TypeOK'
  BY <1>1, <1>6, <1>7, <1>9, <1>13 DEF TypeOK, Extraction, Others
<1>15. \A e : WasRead(e) => WasRead(e)'
  BY <1>6 DEF WasRead
<1>16. ASSUME row.status = "approved" PROVE WasRead(left)'
  <2>1. \E v \in vouched' : v.product = p
    <3>1. CASE wanted.status = "approved"
      BY <1>6, <1>7, <3>1
    <3>2. CASE wanted.status # "approved"
      <4>1. p \in Approved
        BY <1>3, <1>5, <1>16, <3>2 DEF Approved, Existing
      <4>2. PICK v \in vouched : v.product = p
        BY <1>1, <4>1 DEF ReviewInv, ApprovedWasRead, WasRead
      <4> QED  BY <1>6, <4>2
    <3> QED  BY <3>1, <3>2
  <2>2. CASE r \in overtaken
    BY <1>6, <1>7, <2>1, <2>2 DEF WasRead
  <2>3. CASE r \notin overtaken
    <3>1. wanted.status = "approved" /\ left = approval
      BY <1>5, <1>16, <2>3
    <3> QED  BY <1>6, <1>7, <2>1, <3>1 DEF WasRead
  <2> QED  BY <2>2, <2>3
<1>17. ApprovedWasRead'
  <2>1. \A o \in Approved' : WasRead([product |-> o, text |-> products[o].text])'
    <3> SUFFICES ASSUME NEW o \in Approved'
                 PROVE  WasRead([product |-> o, text |-> products[o].text])'
      OBVIOUS
    <3>1. CASE o = p
      BY <1>9, <1>16, <3>1 DEF Approved, Existing
    <3>2. CASE o # p
      <4>1. o \in Approved /\ products'[o] = products[o]
        BY <1>9, <3>2 DEF Approved, Existing, Exists
      <4> QED  BY <1>1, <1>15, <4>1 DEF ReviewInv, ApprovedWasRead
    <3> QED  BY <3>1, <3>2
  <2>2. \A s \in snapshots' : s.products # {} /\ \A e \in s.products : WasRead(e)'
    BY <1>1, <1>6, <1>15 DEF ReviewInv, ApprovedWasRead
  <2> QED  BY <2>1, <2>2 DEF ApprovedWasRead
<1>18. ASSUME NEW o \in Reviewers PROVE GoodReview(o, review[o])'
  <2>1. CASE o = r
    BY <1>12, <1>13, <2>1 DEF GoodReview
  <2>2. CASE o # r
    <3>1. review'[o] = review[o] /\ GoodReview(o, review[o])
      BY <1>1, <1>13, <2>2 DEF ReviewInv
    <3>2. ASSUME review[o].at = "update", o \notin overtaken'
          PROVE  products'[review[o].product] = products[review[o].product]
                 /\ o \notin overtaken
      <4>1. review[o].product # p /\ o \notin overtaken
        BY <1>6, <2>2, <3>2 DEF Others
      <4>2. review[o].product \in ProductIds
        BY <3>1, <3>2 DEF GoodReview
      <4> QED  BY <1>9, <4>1, <4>2
    <3> QED  BY <1>10, <1>15, <3>1, <3>2 DEF GoodReview
  <2> QED  BY <2>1, <2>2
<1>19. SnapshotsInv'
  BY <1>1, <1>6 DEF SnapshotsInv
<1> QED  BY <1>11, <1>14, <1>17, <1>18, <1>19 DEF IInv, ReviewInv

\* A review that goes on to update the product it has read.
LEMMA PreparesKeepsInv ==
  ASSUME IInv, NEW r \in Reviewers, review[r].at = "product", NEW wanted \in Product,
         Prepares(r, wanted, products[review[r].product])
  PROVE  IInv'
<1>1. TypeOK /\ SnapshotsInv /\ ReviewInv
  BY DEF IInv
<1>2. PICK p \in ProductIds : p = review[r].product /\ Exists(p)
  BY <1>1 DEF ReviewInv, GoodReview
<1>3. products[p] \in Product
  BY <1>1, <1>2 DEF TypeOK, Exists
<1> DEFINE new == [NoReview EXCEPT !.at = "update", !.product = p,
                                   !.wanted = wanted, !.found = products[p]]
<1>4. new \in ReviewState /\ new.at = "update" /\ new.product = p /\ new.wanted = wanted
      /\ new.found = products[p]
  <2>1. NoReview \in ReviewState
    BY BoundsAssumption DEF NoReview, ReviewState
  <2> QED  BY <1>3, <2>1 DEF ReviewState
<1>5. review' = [review EXCEPT ![r] = new]
      /\ UNCHANGED <<products, snapshots, vouched, overtaken, torn, reviews>>
      /\ UNCHANGED Extraction
  BY <1>2 DEF Prepares
<1> HIDE DEF new
<1>6. GoodReview(r, new)
  BY <1>2, <1>3, <1>4 DEF GoodReview
<1>7. snapshots \subseteq Snapshot /\ IsFiniteSet(snapshots) /\ reviews \in Nat
  BY <1>1 DEF TypeOK, SnapshotsInv
<1> QED  BY <1>4, <1>5, <1>6, <1>7, ReadingKeepsInv

LEMMA ReviewStepKeepsInv ==
  ASSUME IInv, NEW r \in Reviewers, ReviewStep(r)
  PROVE  IInv'
<1>1. TypeOK /\ ReviewInv /\ SnapshotsInv /\ GoodReview(r, review[r])
  BY DEF IInv, ReviewInv
<1>2. snapshots \subseteq Snapshot /\ IsFiniteSet(snapshots) /\ review[r] \in ReviewState
      /\ reviews \in Nat
  BY <1>1 DEF TypeOK, SnapshotsInv
<1>3. NoReview \in ReviewState /\ NoReview.at = "idle" /\ GoodReview(r, NoReview)
  BY BoundsAssumption DEF NoReview, ReviewState, GoodReview
<1>4. ASSUME NEW p \in ProductIds, ReviewReads(r, p) PROVE IInv'
  <2> DEFINE new == [NoReview EXCEPT !.at = "product", !.product = p, !.seen = products[p]]
  <2>1. products[p] \in Product /\ Exists(p)
    BY <1>1, <1>4 DEF ReviewReads, Exists, TypeOK
  <2>2. new \in ReviewState /\ new.at = "product" /\ new.product = p /\ new.seen = products[p]
    BY <1>3, <2>1 DEF ReviewState
  <2>3. review' = [review EXCEPT ![r] = new] /\ reviews' = reviews + 1
        /\ UNCHANGED <<products, snapshots, vouched, overtaken, torn>> /\ UNCHANGED Extraction
    BY <1>4 DEF ReviewReads
  <2> HIDE DEF new
  <2>4. GoodReview(r, new) /\ reviews' \in Nat
    BY <1>2, <2>1, <2>2, <2>3 DEF GoodReview
  <2> QED  BY <1>2, <2>2, <2>3, <2>4, ReadingKeepsInv
<1>5. CASE ReviewRefused(r)
  <2>1. review' = [review EXCEPT ![r] = NoReview]
        /\ UNCHANGED <<products, snapshots, vouched, overtaken, torn, reviews>>
        /\ UNCHANGED Extraction
    BY <1>5 DEF ReviewRefused, Finish
  <2> QED  BY <1>2, <1>3, <2>1, ReadingKeepsInv
<1>6. ASSUME NEW text \in Texts, Edit(r, text) PROVE IInv'
  <2>1. [status |-> "pending_review", text |-> text] \in Product
    BY DEF Product, ProductStatus
  <2> QED  BY <1>6, <2>1, PreparesKeepsInv DEF Edit
<1>7. ASSUME NEW status \in ProductStatus, Decide(r, status) PROVE IInv'
  <2>1. [review[r].seen EXCEPT !.status = status] \in Product
    BY <1>1, <1>7 DEF Decide, GoodReview, Product
  <2> QED  BY <1>7, <2>1, PreparesKeepsInv DEF Decide
<1>8. CASE CatalogReads(r)
  <2> DEFINE entries == {[product |-> p, text |-> products[p].text] : p \in Approved}
             new == [NoReview EXCEPT !.at = "version", !.entries = entries]
  <2>1. Approved # {} /\ review' = [review EXCEPT ![r] = new]
        /\ UNCHANGED <<products, snapshots, vouched, overtaken, torn, reviews>>
        /\ UNCHANGED Extraction
    BY <1>8 DEF CatalogReads
  <2>2. entries # {} /\ \A e \in entries : WasRead(e)
    BY <1>1, <2>1 DEF ReviewInv, ApprovedWasRead
  <2>3. entries \subseteq Entry
    BY <1>1, <2>2 DEF TypeOK, WasRead
  <2> HIDE DEF entries
  <2>4. new \in ReviewState /\ new.at = "version" /\ new.entries = entries
    BY <1>3, <2>3 DEF ReviewState
  <2> HIDE DEF new
  <2>5. GoodReview(r, new)
    BY <2>2, <2>4 DEF GoodReview
  <2> QED  BY <1>2, <2>1, <2>4, <2>5, ReadingKeepsInv
<1>9. CASE VersionReads(r)
  <2> DEFINE number == Cardinality(snapshots) + 1
             new == [review[r] EXCEPT !.at = "snapshot", !.version = number]
  <2>1. /\ review[r].at = "version" /\ Cardinality(snapshots) < MaxVersions
        /\ review' = [review EXCEPT ![r] = new]
        /\ UNCHANGED <<products, snapshots, vouched, overtaken, torn, reviews>>
        /\ UNCHANGED Extraction
    BY <1>1, <1>9 DEF VersionReads, TypeOK, ReviewState
  <2>2. number \in 1..MaxVersions
    BY <1>2, <2>1, FS_CardinalityType, BoundsAssumption
  <2> HIDE DEF number
  <2>3. new \in ReviewState /\ new.at = "snapshot" /\ new.entries = review[r].entries
    BY <1>2, <2>2 DEF ReviewState
  <2> HIDE DEF new
  <2>4. GoodReview(r, new)
    BY <1>1, <2>1, <2>3 DEF GoodReview
  <2> QED  BY <1>2, <2>1, <2>3, <2>4, ReadingKeepsInv
<1>10. CASE SnapshotCommits(r)
  <2> DEFINE new == [version |-> review[r].version, by |-> r, products |-> review[r].entries]
  <2>1. /\ review[r].at = "snapshot" /\ review' = [review EXCEPT ![r] = NoReview]
        /\ UNCHANGED <<products, vouched, overtaken, torn, reviews>> /\ UNCHANGED Extraction
        /\ snapshots' = snapshots \/ snapshots' = snapshots \cup {new}
    BY <1>10 DEF SnapshotCommits, Finish
  <2>2. new \in Snapshot /\ new.products # {} /\ \A e \in new.products : WasRead(e)
    BY <1>1, <1>2, <2>1 DEF ReviewState, Snapshot, GoodReview
  <2>3. IsFiniteSet(snapshots \cup {new})
    BY <1>2, FS_AddElement
  <2> HIDE DEF new
  <2>4. /\ snapshots' \subseteq Snapshot /\ IsFiniteSet(snapshots')
        /\ \A s \in snapshots' :
             s \in snapshots \/ (s.products # {} /\ \A e \in s.products : WasRead(e))
    BY <1>2, <2>1, <2>2, <2>3
  <2> QED  BY <1>2, <1>3, <2>1, <2>4, ReadingKeepsInv
<1>11. CASE Updates(r)
  BY <1>11, UpdatesKeepsInv
<1> QED
  BY <1>4, <1>5, <1>6, <1>7, <1>8, <1>9, <1>10, <1>11 DEF ReviewStep

LEMMA NextInv == IInv /\ [Next]_vars => IInv'
<1> SUFFICES ASSUME IInv, [Next]_vars PROVE IInv'
  OBVIOUS
<1>1. ASSUME NEW q \in Requests, RequestReads(q) \/ RequestStep(q) \/ PublishRaises(q)
      PROVE  IInv'
  BY <1>1, RequestReadsKeepsInv, RequestReadsRunKeepsInv, RequestCommitsKeepsInv, PublishKeepsInv,
     PublishRaisesKeepsInv DEF RequestStep
<1>2. ASSUME NEW d \in Documents, DocumentDeleted(d) PROVE IInv'
  BY <1>2, DocumentDeletedKeepsInv
<1>3. ASSUME NEW w \in Workers, WorkerStep(w) \/ MissingKey(w) \/ PromptMissing(w)
                             \/ WorkerDies(w)
      PROVE  IInv'
  BY <1>3, ReceiveKeepsInv, StartKeepsInv, StoreKeepsInv, FailKeepsInv, RetryKeepsInv,
     AcknowledgeKeepsInv, MissingKeyKeepsInv, PromptMissingKeepsInv,
     WorkerDiesKeepsInv DEF WorkerStep
<1>4. ASSUME NEW r \in Reviewers, ReviewStep(r) PROVE IInv'
  BY <1>4, ReviewStepKeepsInv
<1>5. CASE UNCHANGED vars
  <2>1. UNCHANGED Extraction /\ UNCHANGED Review /\ UNCHANGED vars
    BY <1>5 DEF vars, Extraction, Review, Reviewed
  <2>2. AnswersInv' /\ HoldingInv' /\ MessagesInv' /\ OpenRunsAreAttended'
    BY <2>1, ExtractionKept DEF Review, Exists
  <2>3. TypeOK'
    BY <2>1 DEF IInv, TypeOK, vars
  <2> QED  BY <2>1, <2>2, <2>3, ReviewKept DEF IInv
<1> QED  BY <1>1, <1>2, <1>3, <1>4, <1>5 DEF Next

LEMMA InvHolds == Spec => []IInv
BY InitInv, NextInv, PTL DEF Spec

-----------------------------------------------------------------------------
(* Theorems *)

\* The rows of the catalog, the messages and everything in progress are well
\* typed in every reachable state.
THEOREM TypeCorrect == Spec => []TypeOK
<1>1. IInv => TypeOK
  BY DEF IInv
<1> QED  BY <1>1, InvHolds, PTL

\* The products of a document come from one answer of the AI (the lookup of
\* ProcessAIExtractionRun before it creates products).
THEOREM OneAnswer == Spec => []OneAnswerPerRun
<1>1. IInv => OneAnswerPerRun
  BY DEF IInv, AnswersInv, OneAnswerPerRun
<1> QED  BY <1>1, InvHolds, PTL

\* An open run without products has a request, a message or a worker that will
\* still see to it, for any number of deaths, retries and parallel requests.
THEOREM OpenRunsHaveSomebody == Spec => []OpenRunsAreAttended
<1>1. IInv => OpenRunsAreAttended
  BY DEF IInv
<1> QED  BY <1>1, InvHolds, PTL

\* What is approved, and what a snapshot holds, was approved by somebody, and is
\* what a reviewer had read when approving it, unless another review wrote the row
\* between the second read and the UPDATE of update_product.
THEOREM ApprovalsWereRead == Spec => []ApprovedWasRead
<1>1. IInv => ApprovedWasRead
  BY DEF IInv, ReviewInv
<1> QED  BY <1>1, InvHolds, PTL
=============================================================================
