------------------------- MODULE SupplierDiscovery -------------------------
(***************************************************************************)
(* The suppliers of one tender: the staged discovery runs that find them,  *)
(* and the reviewers who approve, reject, edit, merge, add and confirm     *)
(* them.                                                                   *)
(*                                                                         *)
(* Every stage of a run locks the row of the run and checks its stage, but *)
(* suppliers and tender suppliers are read and written without a lock, by  *)
(* the stages and by the reviewers: a transaction that touches them is two *)
(* steps, what it reads and what it commits, and a row is written whole,   *)
(* from what was read.                                                     *)
(*                                                                         *)
(* Snapshot, providers and criteria are fixed, so all runs have the same   *)
(* search identity.  The n-th run has the refresh sequence n, which its    *)
(* unique execution key is made of.  The snapshot has one product.         *)
(***************************************************************************)
EXTENDS Naturals, FiniteSets

CONSTANTS
  Candidates,  \* the companies the search may suggest; suggestions of one
               \* company have an identity signal in common, others do not
  Rows,        \* bound: the rows of suppliers, each with its tender supplier
  Requests,    \* calls of RequestSupplierDiscoveryV2 in progress at a time
  Workers,     \* Celery worker processes of the queue supplier-discovery
  Reviewers,   \* calls of the review use cases in progress at a time
  Absent,      \* a row that does not exist, a message that is not there
  Faults,      \* the faults that may happen, a subset of AllFaults
  MaxRuns,     \* bound: discovery runs
  MaxRetries,  \* max_retries of the task
  MaxReviews,  \* bound: calls of the review use cases
  MaxFaults    \* bound: refused publications, failures and deaths of workers

VARIABLES
  run,        \* supplier_discovery_runs: by refresh sequence, a row or Absent
  request,    \* what each request has yet to write and to publish
  broker,     \* the unacknowledged messages
  worker,     \* what each worker is doing, and what its transaction has read
  master,     \* suppliers: a row or Absent
  item,       \* tender_suppliers.status of the master, or none
  match,      \* product_supplier_matches.match_status of the item, or none
  review,     \* what each reviewer's transaction has read
  decided,    \* history: the decisions of reviewers, by row
  refused,    \* history: the runs whose publication failed
  reviews,    \* calls of the review use cases so far
  faults      \* refused publications, failures and deaths of workers so far

vars == <<run, request, broker, worker, master, item, match, review, decided,
          refused, reviews, faults>>

-----------------------------------------------------------------------------
(* Values *)

\* "publish_down": the queue refuses a run.  "search": the provider fails for
\* every product.  "database": a transaction fails.  "overlap": a message is
\* delivered again while a worker still holds it (visibility_timeout).
AllFaults == {"publish_down", "search", "database", "overlap"}

Runs == 1..MaxRuns

\* SupplierDiscoveryRunStatus; mark_reused has no caller.
RunStatus == {"queued", "running", "completed", "failed"}

\* SupplierDiscoveryStage, by its place in _STAGE_ORDER: queued, search,
\* deduplication, contacts, matching, review, completed.
Search == 1
Deduplication == 2
Contacts == 3
Matching == 4
Review == 5
Completed == 6

Stage == 0..Completed

\* raw: the candidates of the search.  done: those that have a supplier.
Run == [status : RunStatus, stage : Stage, raw : SUBSET Candidates,
        done : SUBSET (Candidates \X Rows)]

NewRun == [status |-> "queued", stage |-> 0, raw |-> {}, done |-> {}]

\* merged_into_supplier_id, Absent while the supplier is its own.
Master == [company : Candidates, merged : Rows \cup {Absent}]

\* SupplierStatus; contacted, responded and inactive come after the RFQ.
ItemStatus == {"none", "candidate", "contacts_found", "pending_review", "approved",
               "rejected", "merged"}

\* SupplierMatchStatus; nothing rejects a match.
MatchStatus == {"none", "candidate", "confirmed"}

Message == [run : Runs, try : 0..MaxRetries]

RequestState == [at : {"idle", "create", "publish"}, run : Runs]

NoRequest == [at |-> "idle", run |-> 1]

\* What a transaction has read of each row.
Seen == [Rows -> ItemStatus \cup MatchStatus \cup {"known"}]

NothingSeen == [s \in Rows |-> "none"]

\* The stages with a transaction of two steps, and the same with it open.
Opened == {"in_deduplication", "in_contacts", "in_matching", "in_completion"}

WorkerState ==
  [at : {"idle", "taken", "searching", "deduplication", "contacts", "matching",
         "completion", "raising", "search_failed", "retrying", "returned"} \cup Opened,
   message : Message \cup {Absent}, seen : Seen]

Idle == [at |-> "idle", message |-> Absent, seen |-> NothingSeen]

ReviewState ==
  [at : {"idle", "item", "merge", "manual"}, row : Rows \cup {Absent},
   target : Rows \cup {Absent}, master : Master \cup {Absent}, seen : Seen]

NoReview == [at |-> "idle", row |-> Absent, target |-> Absent, master |-> Absent,
             seen |-> NothingSeen]

ASSUME NamesAssumption == Absent \notin Rows \cup Message \cup Run \cup Master

ASSUME BoundsAssumption ==
  /\ Faults \subseteq AllFaults /\ Rows # {} /\ IsFiniteSet(Rows)
  /\ MaxRuns \in Nat \ {0} /\ MaxRetries \in Nat
  /\ MaxReviews \in Nat /\ MaxFaults \in Nat

-----------------------------------------------------------------------------
(* Domain rules *)

\* _SUPPLIER_TRANSITIONS.
Transitions == [s \in ItemStatus |->
  CASE s = "candidate" -> {"contacts_found"}
    [] s = "contacts_found" -> {"pending_review"}
    [] s = "pending_review" -> {"approved", "rejected", "merged"}
    [] s = "approved" -> {"merged"}
    [] OTHER -> {}]

\* TenderSupplier._transition: to stay is no error.
MayBecome(from, to) == from = to \/ to \in Transitions[from]

Started(n) == [run EXCEPT ![n].status = "running", ![n].stage = Search]

\* Something fails.
Happens == faults < MaxFaults /\ faults' = faults + 1

Existing == {s \in Rows : master[s] # Absent}

Held(m) == \E w \in Workers : worker[w].message = m

RunOf(w) == worker[w].message.run

\* The row of the run is locked by an open transaction.
Locked(n) == \E w \in Workers : worker[w].at \in Opened /\ RunOf(w) = n

At(w, at) == worker[w].at = at

Goes(w, at) == worker' = [worker EXCEPT ![w].at = at, ![w].seen = NothingSeen]

Opens(w, at, seen) == worker' = [worker EXCEPT ![w].at = at, ![w].seen = seen]

-----------------------------------------------------------------------------
Init ==
  /\ run = [n \in Runs |-> Absent]
  /\ request = [q \in Requests |-> NoRequest]
  /\ broker = {}
  /\ worker = [w \in Workers |-> Idle]
  /\ master = [s \in Rows |-> Absent]
  /\ item = [s \in Rows |-> "none"]
  /\ match = [s \in Rows |-> "none"]
  /\ review = [r \in Reviewers |-> NoReview]
  /\ decided = {}
  /\ refused = {}
  /\ reviews = 0
  /\ faults = 0

-----------------------------------------------------------------------------
(* RequestSupplierDiscoveryV2 *)

Suppliers == <<master, item, match, review, decided, reviews>>

Exist == {n \in Runs : run[n] # Absent}

NewSequence == Cardinality(Exist) + 1

\* Without refresh the latest run is returned, open or completed, and nothing
\* is written; after a failed run, or with refresh, a new run is made.
RequestReads(q, refresh) ==
  /\ request[q].at = "idle"
  /\ NewSequence \in Runs
  /\ Exist # {} /\ ~refresh => run[NewSequence - 1].status = "failed"
  /\ request' = [request EXCEPT ![q] = [at |-> "create", run |-> NewSequence]]
  /\ UNCHANGED <<run, broker, worker, refused, faults, Suppliers>>

\* The key (tender_id, idempotency_key) rejects the second of two equal runs.
RequestCreates(q) ==
  /\ request[q].at = "create"
  /\ LET n == request[q].run IN
     IF run[n] # Absent
       THEN request' = [request EXCEPT ![q] = NoRequest] /\ UNCHANGED run
       ELSE /\ run' = [run EXCEPT ![n] = NewRun]
            /\ request' = [request EXCEPT ![q].at = "publish"]
  /\ UNCHANGED <<broker, worker, refused, faults, Suppliers>>

Publish(q) ==
  /\ request[q].at = "publish"
  /\ broker' = broker \cup {[run |-> request[q].run, try |-> 0]}
  /\ request' = [request EXCEPT ![q] = NoRequest]
  /\ UNCHANGED <<run, worker, refused, faults, Suppliers>>

\* SupplierDiscoveryQueueFailure; the run stays queued, and is what later
\* requests are answered with.
PublishRaises(q) ==
  /\ "publish_down" \in Faults /\ Happens
  /\ request[q].at = "publish"
  /\ refused' = refused \cup {request[q].run}
  /\ request' = [request EXCEPT ![q] = NoRequest]
  /\ UNCHANGED <<run, broker, worker, Suppliers>>

-----------------------------------------------------------------------------
(* The worker: discover_tender_suppliers and ProcessSupplierDiscoveryRunV2 *)

Receive(w, m) ==
  /\ At(w, "idle")
  /\ m \in broker /\ (Held(m) => "overlap" \in Faults)
  /\ worker' = [worker EXCEPT ![w] = [at |-> "taken", message |-> m, seen |-> NothingSeen]]
  /\ UNCHANGED <<run, request, broker, refused, faults, Suppliers>>

\* First transaction of DiscoverSuppliersV2: nothing is done past the search.
StartSearch(w) ==
  /\ At(w, "taken") /\ ~Locked(RunOf(w))
  /\ LET n == RunOf(w) IN
     IF run[n].stage > Search
       THEN Goes(w, "deduplication") /\ UNCHANGED run
       ELSE Goes(w, "searching") /\ run' = Started(n)
  /\ UNCHANGED <<request, broker, refused, faults, Suppliers>>

\* SupplierSearchFailure (errors, and no candidate at all), which is tried again;
\* or any other exception of a client, which is not.
SearchFails(w) ==
  /\ "search" \in Faults /\ Happens
  /\ At(w, "searching")
  /\ \E at \in {"search_failed", "raising"} : Goes(w, at)
  /\ UNCHANGED <<run, request, broker, refused, Suppliers>>

\* Second transaction: save_search_results looks at the status, not at the stage.
\* NormalizeSupplierCandidates then rewrites the candidates in place.
SaveSearch(w, found) ==
  /\ At(w, "searching") /\ ~Locked(RunOf(w))
  /\ LET n == RunOf(w) IN
     IF run[n].status # "running"
       THEN Goes(w, "raising") /\ UNCHANGED run
       ELSE /\ Goes(w, "deduplication")
            /\ run' = [run EXCEPT ![n].raw = found, ![n].stage = Deduplication]
  /\ UNCHANGED <<request, broker, refused, faults, Suppliers>>

\* The stages after the search: one that the run is past returns at once, else
\* the transaction is opened by reading the suppliers.
Skip(w, at, stage, next) ==
  /\ At(w, at) /\ ~Locked(RunOf(w)) /\ run[RunOf(w)].stage > stage
  /\ Goes(w, next)
  /\ UNCHANGED <<run, request, broker, refused, faults, Suppliers>>

Open(w, at, stage, opened, seen) ==
  /\ At(w, at) /\ ~Locked(RunOf(w)) /\ run[RunOf(w)].stage <= stage
  /\ Opens(w, opened, seen)
  /\ UNCHANGED <<run, request, broker, refused, faults, Suppliers>>

SkipDeduplication(w) == Skip(w, "deduplication", Deduplication, "contacts")

SkipContacts(w) == Skip(w, "contacts", Contacts, "matching")

SkipMatching(w) == Skip(w, "matching", Matching, "completion")

\* find_best never proposes a supplier that was merged into another.
Known == [s \in Rows |->
  IF s \in Existing /\ master[s].merged = Absent THEN "known" ELSE "none"]

OpenDeduplication(w) ==
  Open(w, "deduplication", Deduplication, "in_deduplication", Known)

OpenContacts(w) == Open(w, "contacts", Contacts, "in_contacts", item)

OpenMatching(w) == Open(w, "matching", Matching, "in_matching", match)

\* The save_ and mark_ methods require a running run; what raises is rolled back.
NotRunning(w) ==
  /\ worker[w].at \in Opened
  /\ run[RunOf(w)].status # "running"
  /\ Goes(w, "raising")
  /\ UNCHANGED <<run, request, broker, refused, faults, Suppliers>>

\* A unique key, or the database, rejects what an open transaction writes.
DatabaseFails(w) ==
  /\ "database" \in Faults /\ Happens
  /\ worker[w].at \in Opened
  /\ Goes(w, "raising")
  /\ UNCHANGED <<run, request, broker, refused, Suppliers>>

\* The rows the candidates of n may get: the known supplier of the company, or
\* else a new one each.
Assignments(known, raw) ==
  {f \in [raw -> Rows] :
     /\ \A c \in raw :
          LET same == {s \in Rows : known[s] = "known" /\ master[s].company = c}
          IN IF same # {} THEN f[c] \in same ELSE master[f[c]] = Absent
     /\ \A c, d \in raw : f[c] = f[d] => c = d}

\* DeduplicateSuppliersV2.  The merge suggestions it makes are not modelled.
Deduplicate(w) ==
  /\ At(w, "in_deduplication")
  /\ LET n == RunOf(w) IN
     /\ run[n].status = "running"
     /\ \E f \in Assignments(worker[w].seen, run[n].raw) :
          LET new == {c \in run[n].raw : master[f[c]] = Absent} IN
          /\ master' = [s \in Rows |->
               IF \E c \in new : f[c] = s
                 THEN [company |-> CHOOSE c \in new : f[c] = s, merged |-> Absent]
                 ELSE master[s]]
          /\ item' = [s \in Rows |->
               IF item[s] = "none" /\ (\E c \in run[n].raw : f[c] = s)
                 THEN "candidate" ELSE item[s]]
          /\ run' = [run EXCEPT ![n].stage = Contacts,
                                ![n].done = {<<c, f[c]>> : c \in run[n].raw}]
  /\ Goes(w, "contacts")
  /\ UNCHANGED <<request, broker, refused, faults, match, review, decided, reviews>>

RowsOf(n) == {p[2] : p \in run[n].done}

\* DiscoverSupplierContactsV2: what was read as candidate gets its contacts.
FindContacts(w) ==
  /\ At(w, "in_contacts")
  /\ LET n == RunOf(w) IN
     /\ run[n].status = "running"
     /\ item' = [s \in Rows |->
          IF s \in RowsOf(n) /\ worker[w].seen[s] = "candidate"
            THEN "contacts_found" ELSE item[s]]
     /\ run' = [run EXCEPT ![n].stage = Matching]
  /\ Goes(w, "matching")
  /\ UNCHANGED <<request, broker, refused, faults, master, match, review, decided, reviews>>

\* MatchSuppliersV2: a match keeps the status it was read with.  One that was
\* not there may not have appeared, or the unique key raises.
MatchSuppliers(w) ==
  /\ At(w, "in_matching")
  /\ LET n == RunOf(w)
         seen == worker[w].seen
     IN /\ run[n].status = "running"
        /\ \A s \in RowsOf(n) : seen[s] = "none" => match[s] = "none"
        /\ match' = [s \in Rows |->
             IF s \notin RowsOf(n) THEN match[s]
             ELSE IF seen[s] = "none" THEN "candidate" ELSE seen[s]]
        /\ run' = [run EXCEPT ![n].stage = Review]
  /\ Goes(w, "completion")
  /\ UNCHANGED <<request, broker, refused, faults, master, item, review, decided, reviews>>

MatchConflicts(w) ==
  /\ At(w, "in_matching")
  /\ \E s \in RowsOf(RunOf(w)) : worker[w].seen[s] = "none" /\ match[s] # "none"
  /\ Goes(w, "raising")
  /\ UNCHANGED <<run, request, broker, refused, faults, Suppliers>>

\* CompleteSupplierDiscoveryV2: a completed run returns, whatever its stage.
SkipCompletion(w) ==
  /\ At(w, "completion") /\ ~Locked(RunOf(w))
  /\ run[RunOf(w)].status = "completed"
  /\ Goes(w, "returned")
  /\ UNCHANGED <<run, request, broker, refused, faults, Suppliers>>

OpenCompletion(w) ==
  /\ At(w, "completion") /\ ~Locked(RunOf(w))
  /\ run[RunOf(w)].status # "completed"
  /\ Opens(w, "in_completion", item)
  /\ UNCHANGED <<run, request, broker, refused, faults, Suppliers>>

\* Mutant of Complete: the suppliers wait for another stage to offer them.
CompleteOnly(w) ==
  /\ At(w, "in_completion") /\ run[RunOf(w)].status = "running"
  /\ run' = [run EXCEPT ![RunOf(w)].status = "completed", ![RunOf(w)].stage = Completed]
  /\ Goes(w, "returned")
  /\ UNCHANGED <<request, broker, refused, faults, Suppliers>>

\* The suppliers are offered for review, the stage of the run is not checked.
Complete(w) ==
  /\ At(w, "in_completion")
  /\ LET n == RunOf(w) IN
     /\ run[n].status = "running"
     /\ item' = [s \in Rows |->
          IF s \in RowsOf(n) /\ worker[w].seen[s] \in {"candidate", "contacts_found"}
            THEN "pending_review" ELSE item[s]]
     /\ run' = [run EXCEPT ![n].status = "completed", ![n].stage = Completed]
  /\ Goes(w, "returned")
  /\ UNCHANGED <<request, broker, refused, faults, master, match, review, decided, reviews>>

\* Mutant of Fail: there is no handler.
FailUnnoticed(w) ==
  /\ worker[w].at \in {"raising", "search_failed"} /\ ~Locked(RunOf(w))
  /\ Goes(w, "returned")
  /\ UNCHANGED <<run, request, broker, refused, faults, Suppliers>>

\* The handler: the run fails and keeps its stage, unless it was completed.  The
\* task is tried again after SupplierSearchFailure only.
Fail(w) ==
  /\ worker[w].at \in {"raising", "search_failed"} /\ ~Locked(RunOf(w))
  /\ run' = [run EXCEPT ![RunOf(w)].status = IF @ = "completed" THEN @ ELSE "failed"]
  /\ Goes(w, IF At(w, "search_failed") /\ worker[w].message.try < MaxRetries
             THEN "retrying" ELSE "returned")
  /\ UNCHANGED <<request, broker, refused, faults, Suppliers>>

Retry(w) ==
  /\ At(w, "retrying")
  /\ broker' = (broker \ {worker[w].message})
                 \cup {[worker[w].message EXCEPT !.try = @ + 1]}
  /\ worker' = [worker EXCEPT ![w] = Idle]
  /\ UNCHANGED <<run, request, refused, faults, Suppliers>>

Acknowledge(w) ==
  /\ At(w, "returned")
  /\ broker' = broker \ {worker[w].message}
  /\ worker' = [worker EXCEPT ![w] = Idle]
  /\ UNCHANGED <<run, request, refused, faults, Suppliers>>

\* An open transaction is rolled back and the message is delivered again.
WorkerDies(w) ==
  /\ Happens
  /\ ~At(w, "idle")
  /\ worker' = [worker EXCEPT ![w] = Idle]
  /\ UNCHANGED <<run, request, broker, refused, Suppliers>>

-----------------------------------------------------------------------------
(* The reviewers: ApproveSupplier, RejectSupplier, UpdateSupplier,           *)
(* MergeSuppliers, CreateManualSupplier and MatchSupplierToProduct           *)

Discovery == <<run, request, broker, worker, refused, faults>>

Reviewing(r, at) == review[r].at = at

\* A call of a reviewer starts.
Calls == reviews < MaxReviews /\ reviews' = reviews + 1

Ends(r) == review' = [review EXCEPT ![r] = NoReview] /\ UNCHANGED reviews

ItemReads(r, s) ==
  /\ Reviewing(r, "idle") /\ Calls
  /\ item[s] # "none"
  /\ review' = [review EXCEPT ![r] = [NoReview EXCEPT !.at = "item", !.row = s,
       !.master = master[s], !.seen = [NothingSeen EXCEPT ![s] = item[s]]]]
  /\ UNCHANGED <<master, item, match, decided, Discovery>>

\* What was read does not allow the call, or the database fails.
ReviewRefused(r) ==
  /\ ~Reviewing(r, "idle")
  /\ Ends(r)
  /\ UNCHANGED <<master, item, match, decided, Discovery>>

\* The status a reviewer has read.
SeenStatus(r) == review[r].seen[review[r].row]

\* Mutant of Decide: any supplier of the tender may be decided.
DecideAnything(r, status) ==
  /\ Reviewing(r, "item") /\ status \in {"approved", "rejected"}
  /\ item' = [item EXCEPT ![review[r].row] = status]
  /\ decided' = IF SeenStatus(r) \in {"pending_review", status}
                THEN decided \cup {<<review[r].row, status>>} ELSE decided
  /\ Ends(r)
  /\ UNCHANGED <<master, match, Discovery>>

\* approve and reject.
Decide(r, status) ==
  /\ Reviewing(r, "item") /\ status \in {"approved", "rejected"}
  /\ MayBecome(SeenStatus(r), status)
  /\ item' = [item EXCEPT ![review[r].row] = status]
  /\ decided' = decided \cup {<<review[r].row, status>>}
  /\ Ends(r)
  /\ UNCHANGED <<master, match, Discovery>>

\* Supplier.edit, of a pending item and a supplier that was not merged.  What is
\* edited is not modelled: the rest of the row is written with it.
Edit(r) ==
  /\ Reviewing(r, "item")
  /\ SeenStatus(r) = "pending_review" /\ review[r].master.merged = Absent
  /\ master' = [master EXCEPT ![review[r].row] = review[r].master]
  /\ Ends(r)
  /\ UNCHANGED <<item, match, decided, Discovery>>

\* The association of an approved supplier with an approved product.
Confirm(r) ==
  /\ Reviewing(r, "item")
  /\ SeenStatus(r) = "approved" /\ review[r].master.merged = Absent
  /\ match' = [match EXCEPT ![review[r].row] = "confirmed"]
  /\ Ends(r)
  /\ UNCHANGED <<master, item, decided, Discovery>>

MergeReads(r, s, t) ==
  /\ Reviewing(r, "idle") /\ Calls
  /\ s # t /\ item[s] # "none" /\ item[t] # "none"
  /\ review' = [review EXCEPT ![r] = [NoReview EXCEPT !.at = "merge", !.row = s,
       !.target = t, !.master = master[s],
       !.seen = [NothingSeen EXCEPT ![s] = item[s], ![t] = item[t]]]]
  /\ UNCHANGED <<master, item, match, decided, Discovery>>

\* The supplier and its item are merged into the target, which gets the matches
\* it lacks, and those with a better score, as candidates.  Nothing is read of
\* the master of the target but that it exists.
Merge(r) ==
  /\ Reviewing(r, "merge")
  /\ LET s == review[r].row
         t == review[r].target
     IN /\ review[r].seen[t] \notin {"rejected", "merged"}
        /\ review[r].master.merged = Absent
        /\ MayBecome(review[r].seen[s], "merged")
        /\ \E copied \in BOOLEAN :
             match' = [match EXCEPT ![t] =
               IF copied /\ match[s] # "none" THEN "candidate" ELSE @]
        /\ master' = [master EXCEPT ![s] = [review[r].master EXCEPT !.merged = t]]
        /\ item' = [item EXCEPT ![s] = "merged"]
        /\ decided' = decided \cup {<<s, "merged">>}
  /\ Ends(r)
  /\ UNCHANGED Discovery

ManualReads(r) ==
  /\ Reviewing(r, "idle") /\ Calls
  /\ review' = [review EXCEPT ![r] = [NoReview EXCEPT !.at = "manual", !.seen = Known]]
  /\ UNCHANGED <<master, item, match, decided, Discovery>>

\* The supplier of the same identity, or else a new one, is pending review at
\* once, unless the tender has it already.
CreateManual(r, c) ==
  /\ Reviewing(r, "manual")
  /\ \E f \in Assignments(review[r].seen, {c}) :
       LET s == f[c] IN
       /\ master' = [master EXCEPT ![s] =
            IF @ = Absent THEN [company |-> c, merged |-> Absent] ELSE @]
       /\ item' = [item EXCEPT ![s] = IF @ = "none" THEN "pending_review" ELSE @]
  /\ Ends(r)
  /\ UNCHANGED <<match, decided, Discovery>>

-----------------------------------------------------------------------------
RequestStep(q) == RequestCreates(q) \/ Publish(q)

Skips(w) ==
  SkipDeduplication(w) \/ SkipContacts(w) \/ SkipMatching(w) \/ SkipCompletion(w)

Begins(w) ==
  OpenDeduplication(w) \/ OpenContacts(w) \/ OpenMatching(w) \/ OpenCompletion(w)

Commits(w) == Deduplicate(w) \/ FindContacts(w) \/ MatchSuppliers(w) \/ Complete(w)

WorkerStep(w) ==
  \/ \E m \in broker : Receive(w, m)
  \/ StartSearch(w) \/ (\E found \in SUBSET Candidates : SaveSearch(w, found))
  \/ Skips(w) \/ Begins(w) \/ Commits(w)
  \/ NotRunning(w) \/ MatchConflicts(w)
  \/ Fail(w) \/ Retry(w) \/ Acknowledge(w)

ReviewStep(r) ==
  \/ \E s \in Rows : ItemReads(r, s)
  \/ \E s, t \in Rows : MergeReads(r, s, t)
  \/ ManualReads(r) \/ ReviewRefused(r)
  \/ (\E status \in ItemStatus : Decide(r, status)) \/ Edit(r) \/ Confirm(r) \/ Merge(r)
  \/ \E c \in Candidates : CreateManual(r, c)

Next ==
  \/ \E q \in Requests :
       RequestStep(q) \/ PublishRaises(q) \/ \E refresh \in BOOLEAN : RequestReads(q, refresh)
  \/ \E w \in Workers : WorkerStep(w) \/ SearchFails(w) \/ DatabaseFails(w) \/ WorkerDies(w)
  \/ \E r \in Reviewers : ReviewStep(r)

Spec == Init /\ [][Next]_vars

-----------------------------------------------------------------------------
(* Properties *)

\* Every row and everything in progress is well typed.
TypeOK ==
  /\ run \in [Runs -> Run \cup {Absent}]
  /\ request \in [Requests -> RequestState]
  /\ broker \subseteq Message
  /\ worker \in [Workers -> WorkerState]
  /\ master \in [Rows -> Master \cup {Absent}]
  /\ item \in [Rows -> ItemStatus]
  /\ match \in [Rows -> MatchStatus]
  /\ review \in [Reviewers -> ReviewState]
  /\ decided \subseteq Rows \X ItemStatus
  /\ refused \subseteq Runs
  /\ reviews \in Nat
  /\ faults \in Nat

\* A run that is queued or running is taken care of, by the request that is to
\* publish it, a message or a worker, unless the queue refused it.
Attended(n) ==
  \/ \E q \in Requests : request[q].at = "publish" /\ request[q].run = n
  \/ \E m \in broker : m.run = n /\ ~Held(m)
  \/ \E w \in Workers : ~At(w, "idle") /\ ~At(w, "returned") /\ RunOf(w) = n

OpenRunsAreAttended ==
  \A n \in Exist :
    run[n].status \in {"queued", "running"} /\ n \notin refused => Attended(n)

\* Through deaths, retries and redeliveries, and whatever other runs and the
\* reviewers do at the same time: a completed run has a supplier for every
\* candidate it found, and has offered each of them for review.  Another run of
\* the same supplier that has not completed may have set it back.
CompletedIsProcessed ==
  \A n \in Exist : run[n].status = "completed" =>
    /\ {p[1] : p \in run[n].done} = run[n].raw
    /\ \A s \in RowsOf(n) :
         \/ item[s] \notin {"none", "candidate", "contacts_found"}
         \/ \E m \in Exist : run[m].status # "completed" /\ s \in RowsOf(m)

\* What is approved, rejected or merged, and the supplier of a confirmed match,
\* was decided so by a reviewer, whatever overwrote what since.
DecisionsWereMade ==
  \A s \in Rows :
    /\ item[s] \in {"approved", "rejected", "merged"} => <<s, item[s]>> \in decided
    /\ match[s] = "confirmed" => <<s, "approved">> \in decided

=============================================================================
