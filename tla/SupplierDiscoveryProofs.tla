----------------------- MODULE SupplierDiscoveryProofs -----------------------
(***************************************************************************)
(* Theorems about SupplierDiscovery, for any companies, rows, requests,    *)
(* workers, reviewers, faults and bounds.                                  *)
(***************************************************************************)
EXTENDS SupplierDiscovery, TLAPS

-----------------------------------------------------------------------------
(* The inductive invariant *)

\* What is in the queue, or about to be, is about a run that exists.
RunsExist ==
  /\ \A m \in broker : run[m.run] # Absent
  /\ \A q \in Requests : request[q].at = "publish" => run[request[q].run] # Absent

SuppliersExist == \A s \in Rows : item[s] # "none" => master[s] # Absent

\* A worker knows its run, has read items of suppliers that are there, and of the
\* matches what was confirmed.
GoodWorker(x) ==
  /\ x.at # "idle" => x.message \in Message /\ run[x.message.run] # Absent
  /\ x.at = "retrying" => x.message.try < MaxRetries
  /\ x.at \in {"in_contacts", "in_completion"} =>
       \A s \in Rows : x.seen[s] # "none" => master[s] # Absent
  /\ x.at = "in_matching" => \A s \in Rows :
       x.seen[s] \in MatchStatus /\ (x.seen[s] = "confirmed" => <<s, "approved">> \in decided)

\* A reviewer has read of a supplier what was decided.
GoodReview(x) ==
  /\ x.at \in {"item", "merge"} =>
       /\ x.row \in Rows /\ x.master \in Master /\ master[x.row] # Absent
       /\ x.seen[x.row] \in {"approved", "rejected", "merged"} =>
            <<x.row, x.seen[x.row]>> \in decided
  /\ x.at = "merge" => x.target \in Rows

IInv ==
  /\ TypeOK /\ RunsExist /\ SuppliersExist /\ DecisionsWereMade
  /\ \A w \in Workers : GoodWorker(worker[w])
  /\ \A r \in Reviewers : GoodReview(review[r])

-----------------------------------------------------------------------------
(* What a step may do *)

\* No run, no supplier and no decision is lost.
Forward ==
  /\ \A n \in Runs : run[n] # Absent => run'[n] # Absent
  /\ \A s \in Rows : master[s] # Absent => master'[s] # Absent
  /\ decided \subseteq decided'

\* The rows, the requests and the messages are typed.
RowsTyped ==
  /\ run \in [Runs -> Run \cup {Absent}]
  /\ request \in [Requests -> RequestState]
  /\ broker \subseteq Message
  /\ master \in [Rows -> Master \cup {Absent}]
  /\ item \in [Rows -> ItemStatus]
  /\ match \in [Rows -> MatchStatus]
  /\ decided \subseteq Rows \X ItemStatus
  /\ refused \subseteq Runs
  /\ reviews \in Nat
  /\ faults \in Nat

LEMMA StaysGood ==
  ASSUME Forward
  PROVE  /\ \A x \in WorkerState : GoodWorker(x) => GoodWorker(x)'
         /\ \A x \in ReviewState : GoodReview(x) => GoodReview(x)'
<1>1. ASSUME NEW x \in WorkerState, GoodWorker(x) PROVE GoodWorker(x)'
  BY <1>1 DEF GoodWorker, Forward, Message
<1>2. ASSUME NEW x \in ReviewState, GoodReview(x) PROVE GoodReview(x)'
  BY <1>2 DEF GoodReview, Forward
<1> QED  BY <1>1, <1>2

\* A step that loses nothing, whose workers and reviewers are good or as they
\* were, and that leaves the suppliers in order, keeps the invariant.
LEMMA StepKeepsInv ==
  ASSUME IInv, Forward, RowsTyped',
         worker' \in [Workers -> WorkerState],
         \A w \in Workers : worker'[w] = worker[w] \/ GoodWorker(worker[w])',
         review' \in [Reviewers -> ReviewState],
         \A r \in Reviewers : review'[r] = review[r] \/ GoodReview(review[r])',
         \A m \in broker' : m \in broker \/ run'[m.run] # Absent,
         \A q \in Requests : request'[q].at = "publish" =>
           request'[q] = request[q] \/ run'[request'[q].run] # Absent,
         SuppliersExist', DecisionsWereMade'
  PROVE  IInv'
<1>1. TypeOK /\ TypeOK'
  BY DEF IInv, TypeOK, RowsTyped
<1>2. RunsExist'
  <2>1. \A m \in broker : m.run \in Runs /\ run[m.run] # Absent
    BY <1>1 DEF IInv, RunsExist, TypeOK, Message
  <2>2. \A q \in Requests : request[q].run \in Runs
    BY <1>1 DEF TypeOK, RequestState
  <2>3. \A m \in broker' : run'[m.run] # Absent
    BY <2>1 DEF Forward
  <2>4. \A q \in Requests : request'[q].at = "publish" => run'[request'[q].run] # Absent
    BY <2>2 DEF IInv, RunsExist, Forward
  <2> QED  BY <2>3, <2>4 DEF RunsExist
<1>3. \A w \in Workers : GoodWorker(worker[w])'
  <2> SUFFICES ASSUME NEW w \in Workers, worker'[w] = worker[w] PROVE GoodWorker(worker[w])'
    OBVIOUS
  <2>1. PICK x \in WorkerState : x = worker[w] /\ x = worker'[w]
    BY <1>1 DEF TypeOK
  <2>2. GoodWorker(x)
    BY <2>1 DEF IInv
  <2> QED  BY <2>1, <2>2, StaysGood
<1>4. \A r \in Reviewers : GoodReview(review[r])'
  <2> SUFFICES ASSUME NEW r \in Reviewers, review'[r] = review[r] PROVE GoodReview(review[r])'
    OBVIOUS
  <2>1. PICK x \in ReviewState : x = review[r] /\ x = review'[r]
    BY <1>1 DEF TypeOK
  <2>2. GoodReview(x)
    BY <2>1 DEF IInv
  <2> QED  BY <2>1, <2>2, StaysGood
<1> QED  BY <1>1, <1>2, <1>3, <1>4 DEF IInv

\* A worker, and what it does to its run and to the queue; no supplier changes.
LEMMA WorkerKeepsInv ==
  ASSUME IInv, NEW w \in Workers, NEW new \in WorkerState, GoodWorker(new),
         worker' = [worker EXCEPT ![w] = new],
         run' \in [Runs -> Run \cup {Absent}], \A n \in Runs : run[n] # Absent => run'[n] # Absent,
         broker' \subseteq Message, \A m \in broker' : m \in broker \/ run[m.run] # Absent,
         faults' \in Nat, UNCHANGED <<request, refused, Suppliers>>
  PROVE  IInv'
<1>1. UNCHANGED <<master, item, match, review, decided, reviews>>
  BY DEF Suppliers
<1>2. Forward /\ RowsTyped'
  BY <1>1 DEF Forward, RowsTyped, IInv, TypeOK
<1>3. worker' \in [Workers -> WorkerState] /\ \A v \in Workers : worker'[v] = worker[v] \/ worker'[v] = new
  BY DEF IInv, TypeOK
<1>4. GoodWorker(new)'
  BY <1>2, StaysGood
<1>5. SuppliersExist' /\ DecisionsWereMade'
  BY <1>1 DEF IInv, SuppliersExist, DecisionsWereMade
<1>6. \A m \in broker' : m \in broker \/ run'[m.run] # Absent
  BY DEF Message
<1>7. review' \in [Reviewers -> ReviewState]
  BY <1>1 DEF IInv, TypeOK
<1> QED  BY <1>1, <1>2, <1>3, <1>4, <1>5, <1>6, <1>7, StepKeepsInv

LEMMA IdleIsGood == Idle \in WorkerState /\ GoodWorker(Idle) /\ Idle.at = "idle"
BY DEF Idle, WorkerState, GoodWorker, Seen, NothingSeen, ItemStatus

LEMMA NoReviewIsGood == NoReview \in ReviewState /\ GoodReview(NoReview)
BY DEF NoReview, ReviewState, GoodReview, Seen, NothingSeen, ItemStatus

Stops == {"deduplication", "contacts", "matching", "completion", "searching", "raising",
          "search_failed", "retrying", "returned", "taken"}

\* A worker that is busy knows its run.
LEMMA Busy ==
  ASSUME IInv, NEW w \in Workers, worker[w].at # "idle"
  PROVE  /\ worker[w] \in WorkerState /\ GoodWorker(worker[w])
         /\ worker[w].message \in Message /\ RunOf(w) \in Runs
         /\ run[RunOf(w)] \in Run
         /\ worker[w].message.try \in 0..MaxRetries
BY DEF IInv, TypeOK, GoodWorker, Message, RunOf

LEMMA GoesWell ==
  ASSUME IInv, NEW w \in Workers, worker[w].at # "idle", NEW at \in Stops, Goes(w, at),
         at = "retrying" => worker[w].message.try < MaxRetries
  PROVE  \E new \in WorkerState : GoodWorker(new) /\ worker' = [worker EXCEPT ![w] = new]
<1>1. PICK x \in WorkerState : x = worker[w]
  BY Busy
<1>2. PICK new : new = [x EXCEPT !.at = at, !.seen = NothingSeen]
  OBVIOUS
<1>3. NothingSeen \in Seen
  BY DEF NothingSeen, Seen, ItemStatus
<1>4. new \in WorkerState
  BY <1>2, <1>3 DEF WorkerState, Stops
<1>5. GoodWorker(new)
  BY <1>1, <1>2, Busy DEF GoodWorker, Stops, WorkerState
<1>6. worker' = [worker EXCEPT ![w] = new]
  BY <1>1, <1>2 DEF Goes
<1> QED  BY <1>4, <1>5, <1>6

\* A worker goes on, and its run with it; no supplier and no message changes.
LEMMA RunKeepsInv ==
  ASSUME IInv, NEW w \in Workers, worker[w].at # "idle", NEW at \in Stops, Goes(w, at),
         at = "retrying" => worker[w].message.try < MaxRetries,
         NEW row \in Run, run' = run \/ run' = [run EXCEPT ![RunOf(w)] = row],
         faults' \in Nat, UNCHANGED <<request, broker, refused, Suppliers>>
  PROVE  IInv'
<1>1. PICK new \in WorkerState : GoodWorker(new) /\ worker' = [worker EXCEPT ![w] = new]
  BY GoesWell
<1>2. run' \in [Runs -> Run \cup {Absent}] /\ \A n \in Runs : run[n] # Absent => run'[n] # Absent
  BY NamesAssumption, Busy DEF IInv, TypeOK
<1>3. broker' \subseteq Message /\ \A m \in broker' : m \in broker
  BY DEF IInv, TypeOK
<1> QED  BY <1>1, <1>2, <1>3, WorkerKeepsInv

\* A worker opens a transaction by reading.
LEMMA OpensInv ==
  ASSUME IInv, NEW w \in Workers, worker[w].at # "idle", NEW at \in Opened, NEW seen \in Seen,
         at \in {"in_contacts", "in_completion"} =>
           \A s \in Rows : seen[s] # "none" => master[s] # Absent,
         at = "in_matching" => \A s \in Rows :
           seen[s] \in MatchStatus /\ (seen[s] = "confirmed" => <<s, "approved">> \in decided),
         Opens(w, at, seen), UNCHANGED <<run, request, broker, refused, faults, Suppliers>>
  PROVE  IInv'
<1>1. PICK x \in WorkerState : x = worker[w]
  BY Busy
<1>2. PICK new : new = [x EXCEPT !.at = at, !.seen = seen]
  OBVIOUS
<1>3. new \in WorkerState
  BY <1>2 DEF WorkerState, Opened
<1>4. GoodWorker(new)
  BY <1>1, <1>2, Busy DEF GoodWorker, WorkerState, Opened
<1>5. worker' = [worker EXCEPT ![w] = new]
  BY <1>1, <1>2 DEF Opens
<1>6. /\ run' \in [Runs -> Run \cup {Absent}] /\ faults' \in Nat
      /\ broker' \subseteq Message /\ \A m \in broker' : m \in broker
  BY DEF IInv, TypeOK
<1> QED  BY <1>3, <1>4, <1>5, <1>6, WorkerKeepsInv

\* A worker lets go of its message; others may be put in its place.
LEMMA LetsGoInv ==
  ASSUME IInv, NEW w \in Workers, worker' = [worker EXCEPT ![w] = Idle],
         broker' \subseteq Message, \A m \in broker' : m \in broker \/ run[m.run] # Absent,
         faults' \in Nat, UNCHANGED <<run, request, refused, Suppliers>>
  PROVE  IInv'
<1>1. run' \in [Runs -> Run \cup {Absent}]
  BY DEF IInv, TypeOK
<1> QED  BY <1>1, IdleIsGood, WorkerKeepsInv

-----------------------------------------------------------------------------
(* The requests *)

LEMMA InitInv == Init => IInv
<1> SUFFICES ASSUME Init PROVE IInv
  OBVIOUS
<1>1. NoRequest \in RequestState /\ NoRequest.at # "publish"
  BY BoundsAssumption DEF NoRequest, RequestState, Runs
<1>2. TypeOK
  BY <1>1, IdleIsGood, NoReviewIsGood DEF Init, TypeOK, ItemStatus, MatchStatus
<1>3. RunsExist /\ SuppliersExist /\ DecisionsWereMade
  BY <1>1 DEF Init, RunsExist, SuppliersExist, DecisionsWereMade
<1> QED  BY <1>2, <1>3, IdleIsGood, NoReviewIsGood DEF Init, IInv

\* Only a request changes, its run and the queue.
LEMMA RequestKeepsInv ==
  ASSUME IInv, NEW q \in Requests, NEW new \in RequestState,
         request' = [request EXCEPT ![q] = new],
         run' \in [Runs -> Run \cup {Absent}], \A n \in Runs : run[n] # Absent => run'[n] # Absent,
         new.at = "publish" => run'[new.run] # Absent,
         broker' \subseteq Message, \A m \in broker' : m \in broker \/ run'[m.run] # Absent,
         refused' \subseteq Runs, faults' \in Nat, UNCHANGED <<worker, Suppliers>>
  PROVE  IInv'
<1>1. UNCHANGED <<master, item, match, review, decided, reviews>>
  BY DEF Suppliers
<1>2. /\ request' \in [Requests -> RequestState]
      /\ \A p \in Requests : request'[p].at = "publish" =>
           request'[p] = request[p] \/ run'[request'[p].run] # Absent
  BY DEF IInv, TypeOK
<1>3. Forward /\ RowsTyped'
  BY <1>1, <1>2 DEF Forward, RowsTyped, IInv, TypeOK
<1>4. SuppliersExist' /\ DecisionsWereMade'
  BY <1>1 DEF IInv, SuppliersExist, DecisionsWereMade
<1>5. worker' \in [Workers -> WorkerState] /\ review' \in [Reviewers -> ReviewState]
  BY <1>1 DEF IInv, TypeOK
<1> QED  BY <1>1, <1>2, <1>3, <1>4, <1>5, StepKeepsInv

LEMMA RequestReadsInv ==
  ASSUME IInv, NEW q \in Requests, NEW refresh \in BOOLEAN, RequestReads(q, refresh) PROVE IInv'
<1>1. PICK new : new = [at |-> "create", run |-> NewSequence]
  OBVIOUS
<1>2. new \in RequestState /\ new.at # "publish"
  BY <1>1 DEF RequestReads, RequestState
<1>3. request' = [request EXCEPT ![q] = new] /\ UNCHANGED <<run, broker, worker, refused, faults, Suppliers>>
  BY <1>1 DEF RequestReads
<1>4. run' \in [Runs -> Run \cup {Absent}] /\ broker' \subseteq Message /\ refused' \subseteq Runs /\ faults' \in Nat
  BY <1>3 DEF IInv, TypeOK
<1> QED  BY <1>2, <1>3, <1>4, RequestKeepsInv

LEMMA StagesAreTyped ==
  /\ {Search, Deduplication, Contacts, Matching, Review, Completed} \subseteq Stage
  /\ {"running", "completed"} \subseteq RunStatus
BY DEF Stage, Search, Deduplication, Contacts, Matching, Review, Completed, RunStatus

LEMMA NewRunIsTyped == NewRun \in Run /\ NewRun # Absent
BY NamesAssumption DEF NewRun, Run, RunStatus, Stage, Completed

LEMMA NoRequestIsTyped == NoRequest \in RequestState /\ NoRequest.at = "idle"
BY BoundsAssumption DEF NoRequest, RequestState, Runs

LEMMA RequestCreatesInv == ASSUME IInv, NEW q \in Requests, RequestCreates(q) PROVE IInv'
<1>1. UNCHANGED <<broker, worker, refused, faults, Suppliers>>
  BY DEF RequestCreates
<1>2. broker' \subseteq Message /\ refused' \subseteq Runs /\ faults' \in Nat
  BY <1>1 DEF IInv, TypeOK
<1>3. PICK x \in RequestState : x = request[q]
  BY DEF IInv, TypeOK
<1>4. x.run \in Runs
  BY DEF RequestState
<1>5. CASE run[x.run] # Absent
  <2>1. request' = [request EXCEPT ![q] = NoRequest] /\ UNCHANGED run
    BY <1>3, <1>5 DEF RequestCreates
  <2>2. run' \in [Runs -> Run \cup {Absent}]
    BY <2>1 DEF IInv, TypeOK
  <2> QED  BY <1>1, <1>2, <2>1, <2>2, NoRequestIsTyped, RequestKeepsInv
<1>6. CASE run[x.run] = Absent
  <2>1. PICK new : new = [x EXCEPT !.at = "publish"]
    OBVIOUS
  <2>2. new \in RequestState /\ new.run = x.run
    BY <2>1 DEF RequestState
  <2>3. request' = [request EXCEPT ![q] = new] /\ run' = [run EXCEPT ![x.run] = NewRun]
    BY <1>3, <1>6, <2>1 DEF RequestCreates
  <2>4. /\ run' \in [Runs -> Run \cup {Absent}]
        /\ \A n \in Runs : run[n] # Absent => run'[n] # Absent
        /\ run'[new.run] # Absent
    BY <1>4, <2>2, <2>3, NewRunIsTyped DEF IInv, TypeOK
  <2>5. \A m \in broker' : m \in broker
    BY <1>1
  <2> QED  BY <1>1, <1>2, <2>2, <2>3, <2>4, <2>5, RequestKeepsInv
<1> QED  BY <1>5, <1>6

LEMMA PublishInv == ASSUME IInv, NEW q \in Requests, Publish(q) PROVE IInv'
<1>1. PICK m : m = [run |-> request[q].run, try |-> 0]
  OBVIOUS
<1>2. m \in Message /\ run[m.run] # Absent
  BY <1>1, BoundsAssumption DEF Publish, Message, RequestState, IInv, TypeOK, RunsExist
<1>3. /\ request' = [request EXCEPT ![q] = NoRequest] /\ broker' = broker \cup {m}
      /\ UNCHANGED <<run, worker, refused, faults, Suppliers>>
  BY <1>1 DEF Publish
<1>4. run' \in [Runs -> Run \cup {Absent}] /\ broker' \subseteq Message /\ refused' \subseteq Runs /\ faults' \in Nat
  BY <1>2, <1>3 DEF IInv, TypeOK
<1> QED  BY <1>2, <1>3, <1>4, NoRequestIsTyped, RequestKeepsInv

LEMMA PublishRaisesInv == ASSUME IInv, NEW q \in Requests, PublishRaises(q) PROVE IInv'
<1>1. /\ request' = [request EXCEPT ![q] = NoRequest] /\ refused' = refused \cup {request[q].run}
      /\ UNCHANGED <<run, broker, worker, Suppliers>> /\ faults' = faults + 1
  BY DEF PublishRaises, Happens
<1>2. request[q].run \in Runs
  BY DEF IInv, TypeOK, RequestState
<1>3. run' \in [Runs -> Run \cup {Absent}] /\ broker' \subseteq Message /\ refused' \subseteq Runs /\ faults' \in Nat
  BY <1>1, <1>2 DEF IInv, TypeOK
<1> QED  BY <1>1, <1>3, NoRequestIsTyped, RequestKeepsInv

-----------------------------------------------------------------------------
(* The workers *)

LEMMA ReceiveInv == ASSUME IInv, NEW w \in Workers, NEW m \in broker, Receive(w, m) PROVE IInv'
<1>1. PICK new : new = [at |-> "taken", message |-> m, seen |-> NothingSeen]
  OBVIOUS
<1>2. m \in Message /\ run[m.run] # Absent
  BY DEF IInv, TypeOK, RunsExist
<1>3. new \in WorkerState /\ GoodWorker(new)
  BY <1>1, <1>2, IdleIsGood DEF WorkerState, GoodWorker, Idle
<1>4. worker' = [worker EXCEPT ![w] = new] /\ UNCHANGED <<run, request, broker, refused, faults, Suppliers>>
  BY <1>1 DEF Receive
<1>5. run' \in [Runs -> Run \cup {Absent}] /\ broker' \subseteq Message /\ faults' \in Nat
  BY <1>4 DEF IInv, TypeOK
<1> QED  BY <1>3, <1>4, <1>5, WorkerKeepsInv

LEMMA StartSearchInv == ASSUME IInv, NEW w \in Workers, StartSearch(w) PROVE IInv'
<1>1. worker[w].at # "idle" /\ UNCHANGED <<request, broker, refused, faults, Suppliers>>
  BY DEF StartSearch, At
<1>2. PICK old \in Run : old = run[RunOf(w)]
  BY <1>1, Busy
<1>3. PICK row : row = [old EXCEPT !.status = "running", !.stage = Search]
  OBVIOUS
<1>4. row \in Run
  BY <1>3, StagesAreTyped DEF Run
<1>5. Started(RunOf(w)) = [run EXCEPT ![RunOf(w)] = row]
  BY <1>1, <1>2, <1>3, Busy DEF Started, IInv, TypeOK
<1>6. \E at \in Stops : at # "retrying" /\ Goes(w, at)
  BY DEF StartSearch, Stops
<1>7. run' = run \/ run' = [run EXCEPT ![RunOf(w)] = row]
  BY <1>5 DEF StartSearch
<1>8. faults' \in Nat
  BY <1>1 DEF IInv, TypeOK
<1> QED  BY <1>1, <1>4, <1>6, <1>7, <1>8, RunKeepsInv

LEMMA SaveSearchInv ==
  ASSUME IInv, NEW w \in Workers, NEW found \in SUBSET Candidates, SaveSearch(w, found) PROVE IInv'
<1>1. worker[w].at # "idle" /\ UNCHANGED <<request, broker, refused, faults, Suppliers>>
  BY DEF SaveSearch, At
<1>2. PICK old \in Run : old = run[RunOf(w)]
  BY <1>1, Busy
<1>3. PICK row : row = [old EXCEPT !.raw = found, !.stage = Deduplication]
  OBVIOUS
<1>4. row \in Run
  BY <1>3, StagesAreTyped DEF Run
<1>5. [run EXCEPT ![RunOf(w)].raw = found, ![RunOf(w)].stage = Deduplication]
        = [run EXCEPT ![RunOf(w)] = row]
  BY <1>1, <1>2, <1>3, Busy DEF IInv, TypeOK
<1>6. \E at \in Stops : at # "retrying" /\ Goes(w, at)
  BY DEF SaveSearch, Stops
<1>7. run' = run \/ run' = [run EXCEPT ![RunOf(w)] = row]
  BY <1>5 DEF SaveSearch
<1>8. faults' \in Nat
  BY <1>1 DEF IInv, TypeOK
<1> QED  BY <1>1, <1>4, <1>6, <1>7, <1>8, RunKeepsInv

\* The steps of a worker that leave its run as it is.
LEMMA OnlyGoesInv ==
  ASSUME IInv, NEW w \in Workers, worker[w].at # "idle", NEW at \in Stops \ {"retrying"}, Goes(w, at),
         faults' \in {faults, faults + 1}, UNCHANGED <<run, request, broker, refused, Suppliers>>
  PROVE  IInv'
<1>1. run[RunOf(w)] \in Run /\ faults' \in Nat
  BY Busy DEF IInv, TypeOK
<1> QED  BY <1>1, RunKeepsInv

LEMMA ControlInv ==
  ASSUME IInv, NEW w \in Workers,
         SearchFails(w) \/ Skips(w) \/ NotRunning(w) \/ DatabaseFails(w) \/ MatchConflicts(w)
  PROVE  IInv'
<1>1. CASE SearchFails(w)
  BY <1>1, OnlyGoesInv DEF SearchFails, Happens, At, Stops
<1>2. CASE Skips(w)
  BY <1>2, OnlyGoesInv DEF Skips, SkipDeduplication, SkipContacts, SkipMatching, SkipCompletion, Skip, At, Stops
<1>3. CASE NotRunning(w)
  BY <1>3, OnlyGoesInv DEF NotRunning, Opened, Stops
<1>4. CASE DatabaseFails(w)
  BY <1>4, OnlyGoesInv DEF DatabaseFails, Happens, Opened, Stops
<1>5. CASE MatchConflicts(w)
  BY <1>5, OnlyGoesInv DEF MatchConflicts, At, Stops
<1> QED  BY <1>1, <1>2, <1>3, <1>4, <1>5

LEMMA BeginsInv == ASSUME IInv, NEW w \in Workers, Begins(w) PROVE IInv'
<1>1. Known \in Seen /\ item \in Seen /\ match \in Seen /\ \A s \in Rows : match[s] \in MatchStatus
  BY DEF Known, Seen, IInv, TypeOK, ItemStatus
<1>2. \A s \in Rows : match[s] = "confirmed" => <<s, "approved">> \in decided
  BY DEF IInv, DecisionsWereMade
<1>3. PICK seen \in {Known, item, match}, at \in Opened :
        /\ Opens(w, at, seen) /\ worker[w].at # "idle"
        /\ UNCHANGED <<run, request, broker, refused, faults, Suppliers>>
        /\ at = "in_matching" => seen = match
        /\ at \in {"in_contacts", "in_completion"} => seen = item
  BY DEF Begins, OpenDeduplication, OpenContacts, OpenMatching, OpenCompletion, Open, At, Opened
<1>4. \A s \in Rows : item[s] # "none" => master[s] # Absent
  BY DEF IInv, SuppliersExist
<1> QED  BY <1>1, <1>2, <1>3, <1>4, OpensInv

LEMMA FailInv == ASSUME IInv, NEW w \in Workers, Fail(w) PROVE IInv'
<1>1. worker[w].at # "idle" /\ UNCHANGED <<request, broker, refused, faults, Suppliers>>
  BY DEF Fail
<1>2. PICK old \in Run : old = run[RunOf(w)]
  BY <1>1, Busy
<1>3. PICK row : row = [old EXCEPT !.status = IF @ = "completed" THEN @ ELSE "failed"]
  OBVIOUS
<1>4. row \in Run
  BY <1>3 DEF Run, RunStatus
<1>5. run' = [run EXCEPT ![RunOf(w)] = row]
  BY <1>1, <1>2, <1>3, Busy DEF Fail, IInv, TypeOK
<1>6. \E at \in Stops : Goes(w, at) /\ (at = "retrying" => worker[w].message.try < MaxRetries)
  BY DEF Fail, Stops
<1>7. faults' \in Nat
  BY <1>1 DEF IInv, TypeOK
<1> QED  BY <1>1, <1>4, <1>5, <1>6, <1>7, RunKeepsInv

LEMMA LeavesInv ==
  ASSUME IInv, NEW w \in Workers, Retry(w) \/ Acknowledge(w) \/ WorkerDies(w) PROVE IInv'
<1>1. CASE Retry(w)
  <2>1. worker[w].at # "idle" /\ worker[w].message.try < MaxRetries
    BY <1>1 DEF Retry, At, IInv, GoodWorker
  <2>2. PICK m \in Message : m = worker[w].message /\ m.try < MaxRetries /\ run[m.run] # Absent
    BY <2>1, Busy DEF GoodWorker
  <2>3. PICK next : next = [m EXCEPT !.try = @ + 1]
    OBVIOUS
  <2>4. next \in Message /\ run[next.run] # Absent
    BY <2>2, <2>3, BoundsAssumption DEF Message
  <2>5. broker' = (broker \ {m}) \cup {next} /\ worker' = [worker EXCEPT ![w] = Idle]
    BY <1>1, <2>2, <2>3 DEF Retry
  <2>6. broker' \subseteq Message /\ faults' \in Nat /\ UNCHANGED <<run, request, refused, Suppliers>>
    BY <1>1, <2>4, <2>5 DEF Retry, IInv, TypeOK
  <2> QED  BY <2>4, <2>5, <2>6, LetsGoInv
<1>2. CASE Acknowledge(w)
  <2>1. broker' \subseteq broker /\ broker' \subseteq Message /\ faults' \in Nat
    BY <1>2 DEF Acknowledge, IInv, TypeOK
  <2> QED  BY <1>2, <2>1, LetsGoInv DEF Acknowledge
<1>3. CASE WorkerDies(w)
  <2>1. broker' \subseteq Message /\ faults' \in Nat
    BY <1>3 DEF WorkerDies, Happens, IInv, TypeOK
  <2> QED  BY <1>3, <2>1, LetsGoInv DEF WorkerDies
<1> QED  BY <1>1, <1>2, <1>3

\* A worker commits: the suppliers change, no decision does.
LEMMA CommitKeepsInv ==
  ASSUME IInv, NEW w \in Workers, worker[w].at # "idle",
         NEW at \in Stops \ {"retrying"}, Goes(w, at),
         NEW row \in Run, run' = [run EXCEPT ![RunOf(w)] = row],
         master' \in [Rows -> Master \cup {Absent}],
         \A s \in Rows : master[s] # Absent => master'[s] # Absent,
         item' \in [Rows -> ItemStatus],
         match' \in [Rows -> MatchStatus],
         SuppliersExist', DecisionsWereMade',
         UNCHANGED <<request, broker, refused, faults, review, decided, reviews>>
  PROVE  IInv'
<1>1. PICK new \in WorkerState : GoodWorker(new) /\ worker' = [worker EXCEPT ![w] = new]
  BY GoesWell
<1>2. run' \in [Runs -> Run \cup {Absent}] /\ \A n \in Runs : run[n] # Absent => run'[n] # Absent
  BY NamesAssumption, Busy DEF IInv, TypeOK
<1>3. Forward /\ RowsTyped'
  BY <1>2 DEF Forward, RowsTyped, IInv, TypeOK
<1>4. worker' \in [Workers -> WorkerState] /\ \A v \in Workers : worker'[v] = worker[v] \/ worker'[v] = new
  BY <1>1 DEF IInv, TypeOK
<1>5. GoodWorker(new)'
  BY <1>1, <1>3, StaysGood
<1>6. review' \in [Reviewers -> ReviewState]
  BY DEF IInv, TypeOK
<1> QED  BY <1>3, <1>4, <1>5, <1>6, StepKeepsInv

LEMMA DeduplicateInv == ASSUME IInv, NEW w \in Workers, Deduplicate(w) PROVE IInv'
<1>1. worker[w].at # "idle"
  BY DEF Deduplicate, At
<1>2. PICK old \in Run : old = run[RunOf(w)]
  BY <1>1, Busy
<1>3. PICK f \in Assignments(worker[w].seen, run[RunOf(w)].raw) :
        LET new == {c \in run[RunOf(w)].raw : master[f[c]] = Absent} IN
        /\ master' = [s \in Rows |->
             IF \E c \in new : f[c] = s
               THEN [company |-> CHOOSE c \in new : f[c] = s, merged |-> Absent]
               ELSE master[s]]
        /\ item' = [s \in Rows |->
             IF item[s] = "none" /\ (\E c \in run[RunOf(w)].raw : f[c] = s)
               THEN "candidate" ELSE item[s]]
        /\ run' = [run EXCEPT ![RunOf(w)].stage = Contacts,
                              ![RunOf(w)].done = {<<c, f[c]>> : c \in run[RunOf(w)].raw}]
  BY Zenon DEF Deduplicate
<1>4. f \in [old.raw -> Rows] /\ old.raw \subseteq Candidates
  BY <1>2 DEF Assignments, Run
<1>5. PICK done : done = {<<c, f[c]>> : c \in old.raw}
  OBVIOUS
<1>6. done \subseteq Candidates \X Rows
  BY <1>4, <1>5
<1>7. PICK row : row = [old EXCEPT !.stage = Contacts, !.done = done]
  OBVIOUS
<1>8. row \in Run
  BY <1>6, <1>7, StagesAreTyped DEF Run
<1>9. run' = [run EXCEPT ![RunOf(w)] = row]
  BY <1>1, <1>2, <1>3, <1>5, <1>7, Busy DEF IInv, TypeOK
<1>10. \A s \in Rows : \/ master'[s] = master[s] /\ \A c \in old.raw : f[c] = s => master[s] # Absent
                       \/ \E c \in old.raw : master'[s] = [company |-> c, merged |-> Absent]
  <2> DEFINE new == {c \in run[RunOf(w)].raw : master[f[c]] = Absent}
  <2> SUFFICES ASSUME NEW s \in Rows
               PROVE  \/ /\ master'[s] = master[s]
                         /\ \A c \in run[RunOf(w)].raw : f[c] = s => master[s] # Absent
                      \/ \E c \in run[RunOf(w)].raw : master'[s] = [company |-> c, merged |-> Absent]
    BY <1>2
  <2>1. CASE \E c \in new : f[c] = s
    <3>1. PICK d : d = CHOOSE c \in new : f[c] = s
      OBVIOUS
    <3>2. d \in new
      BY <2>1, <3>1, Zenon
    <3>3. master'[s] = [company |-> d, merged |-> Absent]
      BY <1>3, <2>1, <3>1, Zenon
    <3> QED  BY <3>2, <3>3
  <2>2. CASE ~\E c \in new : f[c] = s
    <3>1. master'[s] = master[s]
      BY <1>3, <2>2, Zenon
    <3> QED  BY <2>2, <3>1
  <2> QED  BY <2>1, <2>2
<1>11. \A c \in Candidates : [company |-> c, merged |-> Absent] \in Master
  BY DEF Master
<1>12. master' \in [Rows -> Master \cup {Absent}]
  <2> DEFINE new == {c \in run[RunOf(w)].raw : master[f[c]] = Absent}
             Row(s) == IF \E c \in new : f[c] = s
                         THEN [company |-> CHOOSE c \in new : f[c] = s, merged |-> Absent]
                         ELSE master[s]
  <2>1. master' = [s \in Rows |-> Row(s)]
    BY <1>3, Zenon
  <2> HIDE DEF Row
  <2>2. \A s \in Rows : Row(s) \in Master \cup {Absent}
    BY <1>4, <1>10, <1>11, <2>1 DEF IInv, TypeOK
  <2> QED  BY <2>1, <2>2
<1>13. item' \in [Rows -> ItemStatus]
  BY <1>3 DEF IInv, TypeOK, ItemStatus
<1>19. \A s \in Rows : master[s] # Absent => master'[s] # Absent
  BY <1>4, <1>10, <1>11, NamesAssumption
<1>14. SuppliersExist'
  <2>1. \A s \in Rows : (\E c \in old.raw : f[c] = s) => master'[s] # Absent
    BY <1>4, <1>10, <1>11, NamesAssumption
  <2>2. \A s \in Rows : item'[s] # "none" => item[s] # "none" \/ \E c \in old.raw : f[c] = s
    <3>1. item' = [s \in Rows |->
             IF item[s] = "none" /\ (\E c \in run[RunOf(w)].raw : f[c] = s)
               THEN "candidate" ELSE item[s]]
      BY <1>3, Zenon
    <3> QED  BY <1>2, <3>1
  <2> QED  BY <2>1, <2>2, <1>19 DEF IInv, SuppliersExist
<1>15. UNCHANGED <<request, broker, refused, faults, match, review, decided, reviews>>
  BY DEF Deduplicate
<1>16. DecisionsWereMade'
  BY <1>3, <1>15 DEF IInv, DecisionsWereMade
<1>17. match' \in [Rows -> MatchStatus]
  BY <1>15 DEF IInv, TypeOK
<1>18. Goes(w, "contacts") /\ "contacts" \in Stops \ {"retrying"}
  BY DEF Deduplicate, Stops
<1> QED  BY <1>1, <1>8, <1>9, <1>12, <1>13, <1>14, <1>15, <1>16, <1>17, <1>18, <1>19, CommitKeepsInv

\* The commits that write items or matches, of suppliers that are there.
LEMMA ItemsInv ==
  ASSUME IInv, NEW w \in Workers, FindContacts(w) \/ Complete(w) PROVE IInv'
<1>1. worker[w].at # "idle"
  BY DEF FindContacts, Complete, At
<1>2. PICK old \in Run : old = run[RunOf(w)]
  BY <1>1, Busy
<1>3. PICK row \in {[old EXCEPT !.stage = Matching],
                    [old EXCEPT !.status = "completed", !.stage = Completed]} :
        run' = [run EXCEPT ![RunOf(w)] = row]
  BY <1>1, <1>2, Busy DEF FindContacts, Complete, IInv, TypeOK
<1>4. row \in Run
  BY <1>3, StagesAreTyped DEF Run
<1>5. \A s \in Rows : \/ item'[s] = item[s]
                      \/ item'[s] \in {"contacts_found", "pending_review"} /\ s \in RowsOf(RunOf(w))
                         /\ worker[w].seen[s] \in {"candidate", "contacts_found"}
  BY DEF FindContacts, Complete
<1>6. item' \in [Rows -> ItemStatus] /\ match' = match /\ master' = master
  <2>1. item' = [s \in Rows |-> item'[s]] /\ match' = match /\ master' = master
    BY DEF FindContacts, Complete
  <2>2. \A s \in Rows : item'[s] \in ItemStatus
    BY <1>5 DEF IInv, TypeOK, ItemStatus
  <2> QED  BY <2>1, <2>2
<1>7. UNCHANGED <<request, broker, refused, faults, review, decided, reviews>>
  BY DEF FindContacts, Complete
<1>8. SuppliersExist'
  <2>1. \A s \in Rows : worker[w].seen[s] \in {"candidate", "contacts_found"} => master[s] # Absent
    BY DEF IInv, GoodWorker, FindContacts, Complete, At
  <2> QED  BY <1>5, <1>6, <2>1 DEF IInv, SuppliersExist
<1>9. DecisionsWereMade'
  BY <1>5, <1>6, <1>7 DEF IInv, DecisionsWereMade
<1>10. match' \in [Rows -> MatchStatus] /\ master' \in [Rows -> Master \cup {Absent}]
  BY <1>6 DEF IInv, TypeOK
<1>11. \E at \in Stops \ {"retrying"} : Goes(w, at)
  BY DEF FindContacts, Complete, Stops
<1> QED  BY <1>1, <1>3, <1>4, <1>6, <1>7, <1>8, <1>9, <1>10, <1>11, CommitKeepsInv

LEMMA MatchSuppliersInv == ASSUME IInv, NEW w \in Workers, MatchSuppliers(w) PROVE IInv'
<1>1. worker[w].at = "in_matching"
  BY DEF MatchSuppliers, At
<1>2. PICK old \in Run : old = run[RunOf(w)]
  BY <1>1, Busy
<1>3. PICK row : row = [old EXCEPT !.stage = Review]
  OBVIOUS
<1>4. row \in Run
  BY <1>3, StagesAreTyped DEF Run
<1>5. run' = [run EXCEPT ![RunOf(w)] = row]
  BY <1>1, <1>2, <1>3, Busy DEF MatchSuppliers, IInv, TypeOK
<1>6. \A s \in Rows : match'[s] \in {match[s], "candidate", worker[w].seen[s]}
  BY DEF MatchSuppliers
<1>7. \A s \in Rows : /\ worker[w].seen[s] \in MatchStatus
                      /\ worker[w].seen[s] = "confirmed" => <<s, "approved">> \in decided
  BY <1>1 DEF IInv, GoodWorker
<1>8. match' \in [Rows -> MatchStatus]
  <2>1. match' = [s \in Rows |-> match'[s]]
    BY DEF MatchSuppliers
  <2>2. \A s \in Rows : match'[s] \in MatchStatus
    BY <1>6, <1>7 DEF IInv, TypeOK, MatchStatus
  <2> QED  BY <2>1, <2>2
<1>9. UNCHANGED <<request, broker, refused, faults, master, item, review, decided, reviews>>
  BY DEF MatchSuppliers
<1>10. SuppliersExist' /\ DecisionsWereMade'
  BY <1>6, <1>7, <1>9 DEF IInv, SuppliersExist, DecisionsWereMade
<1>11. master' \in [Rows -> Master \cup {Absent}] /\ item' \in [Rows -> ItemStatus]
  BY <1>9 DEF IInv, TypeOK
<1>12. Goes(w, "completion") /\ "completion" \in Stops \ {"retrying"}
  BY DEF MatchSuppliers, Stops
<1> QED  BY <1>1, <1>4, <1>5, <1>8, <1>9, <1>10, <1>11, <1>12, CommitKeepsInv

-----------------------------------------------------------------------------
(* The reviewers *)

\* A reviewer's call begins or ends; the suppliers change, the discovery does not.
LEMMA ReviewKeepsInv ==
  ASSUME IInv, NEW r \in Reviewers, NEW new \in ReviewState, GoodReview(new)',
         review' = [review EXCEPT ![r] = new],
         master' \in [Rows -> Master \cup {Absent}],
         \A s \in Rows : master[s] # Absent => master'[s] # Absent,
         item' \in [Rows -> ItemStatus], match' \in [Rows -> MatchStatus],
         decided \subseteq decided', decided' \subseteq Rows \X ItemStatus, reviews' \in Nat,
         SuppliersExist', DecisionsWereMade', UNCHANGED Discovery
  PROVE  IInv'
<1>1. UNCHANGED <<run, request, broker, worker, refused, faults>>
  BY DEF Discovery
<1>2. Forward /\ RowsTyped'
  BY <1>1 DEF Forward, RowsTyped, IInv, TypeOK
<1>3. /\ review' \in [Reviewers -> ReviewState]
      /\ \A q \in Reviewers : review'[q] = review[q] \/ review'[q] = new
  BY DEF IInv, TypeOK
<1>4. worker' \in [Workers -> WorkerState]
  BY <1>1 DEF IInv, TypeOK
<1> QED  BY <1>1, <1>2, <1>3, <1>4, StepKeepsInv

LEMMA NoReviewStaysGood == GoodReview(NoReview)'
BY DEF GoodReview, NoReview

\* Nothing is written.
LEMMA ReviewReadsInv ==
  ASSUME IInv, NEW r \in Reviewers, NEW new \in ReviewState, GoodReview(new),
         review' = [review EXCEPT ![r] = new], reviews' \in Nat,
         UNCHANGED <<master, item, match, decided, Discovery>>
  PROVE  IInv'
<1>1. GoodReview(new)'
  BY DEF GoodReview
<1>2. SuppliersExist' /\ DecisionsWereMade'
  BY DEF IInv, SuppliersExist, DecisionsWereMade
<1>3. /\ master' \in [Rows -> Master \cup {Absent}] /\ item' \in [Rows -> ItemStatus]
      /\ match' \in [Rows -> MatchStatus] /\ decided' \subseteq Rows \X ItemStatus
  BY DEF IInv, TypeOK
<1> QED  BY <1>1, <1>2, <1>3, ReviewKeepsInv

LEMMA SeenIsTyped ==
  ASSUME IInv
  PROVE  /\ Known \in Seen
         /\ \A s, t \in Rows : /\ [NothingSeen EXCEPT ![s] = item[s]] \in Seen
                               /\ [NothingSeen EXCEPT ![s] = item[s], ![t] = item[t]] \in Seen
BY DEF Known, Seen, NothingSeen, ItemStatus, IInv, TypeOK

LEMMA ReadsInv ==
  ASSUME IInv, NEW r \in Reviewers,
         \/ \E s \in Rows : ItemReads(r, s)
         \/ \E s, t \in Rows : MergeReads(r, s, t)
         \/ ManualReads(r) \/ ReviewRefused(r)
  PROVE  IInv'
<1>1. ASSUME NEW s \in Rows, ItemReads(r, s) PROVE IInv'
  <2>1. PICK seen : seen = [NothingSeen EXCEPT ![s] = item[s]]
    OBVIOUS
  <2>2. PICK new : new = [NoReview EXCEPT !.at = "item", !.row = s, !.master = master[s], !.seen = seen]
    OBVIOUS
  <2>3. item[s] # "none" /\ master[s] \in Master /\ master[s] # Absent
    BY <1>1, NamesAssumption DEF ItemReads, IInv, SuppliersExist, TypeOK
  <2>4. seen \in Seen /\ seen[s] = item[s]
    BY <2>1, SeenIsTyped DEF NothingSeen
  <2>5. new \in ReviewState
    BY <2>2, <2>3, <2>4, NoReviewIsGood DEF ReviewState
  <2>6. GoodReview(new)
    BY <2>2, <2>3, <2>4 DEF GoodReview, NoReview, IInv, DecisionsWereMade
  <2>7. review' = [review EXCEPT ![r] = new]
    BY <1>1, <2>1, <2>2 DEF ItemReads
  <2>8. reviews' = reviews + 1 /\ UNCHANGED <<master, item, match, decided, Discovery>>
    BY <1>1 DEF ItemReads, Calls
  <2>9. reviews' \in Nat
    BY <2>8 DEF IInv, TypeOK
  <2> QED  BY <2>5, <2>6, <2>7, <2>8, <2>9, ReviewReadsInv
<1>2. ASSUME NEW s \in Rows, NEW t \in Rows, MergeReads(r, s, t) PROVE IInv'
  <2>1. PICK seen : seen = [NothingSeen EXCEPT ![s] = item[s], ![t] = item[t]]
    OBVIOUS
  <2>2. PICK new : new = [NoReview EXCEPT !.at = "merge", !.row = s, !.target = t,
                            !.master = master[s], !.seen = seen]
    OBVIOUS
  <2>3. item[s] # "none" /\ master[s] \in Master /\ master[s] # Absent
    BY <1>2, NamesAssumption DEF MergeReads, IInv, SuppliersExist, TypeOK
  <2>4. seen \in Seen /\ seen[s] = item[s]
    BY <1>2, <2>1, SeenIsTyped DEF NothingSeen, MergeReads
  <2>5. new \in ReviewState
    BY <2>2, <2>3, <2>4, NoReviewIsGood DEF ReviewState
  <2>6. GoodReview(new)
    BY <2>2, <2>3, <2>4 DEF GoodReview, NoReview, IInv, DecisionsWereMade
  <2>7. review' = [review EXCEPT ![r] = new]
    BY <1>2, <2>1, <2>2 DEF MergeReads
  <2>8. reviews' = reviews + 1 /\ UNCHANGED <<master, item, match, decided, Discovery>>
    BY <1>2 DEF MergeReads, Calls
  <2>9. reviews' \in Nat
    BY <2>8 DEF IInv, TypeOK
  <2> QED  BY <2>5, <2>6, <2>7, <2>8, <2>9, ReviewReadsInv
<1>3. CASE ManualReads(r)
  <2>1. PICK seen \in Seen : seen = Known
    BY SeenIsTyped
  <2>2. PICK new : new = [NoReview EXCEPT !.at = "manual", !.seen = seen]
    OBVIOUS
  <2>3. new \in ReviewState /\ GoodReview(new)
    BY <2>2, NoReviewIsGood DEF ReviewState, GoodReview
  <2>4. /\ review' = [review EXCEPT ![r] = new] /\ reviews' \in Nat
        /\ UNCHANGED <<master, item, match, decided, Discovery>>
    BY <1>3, <2>1, <2>2 DEF ManualReads, Calls, IInv, TypeOK
  <2> QED  BY <2>3, <2>4, ReviewReadsInv
<1>4. CASE ReviewRefused(r)
  BY <1>4, NoReviewIsGood, ReviewReadsInv DEF ReviewRefused, Ends, IInv, TypeOK
<1> QED  BY <1>1, <1>2, <1>3, <1>4

\* What a reviewer's call knows of the supplier it is about.
LEMMA Reviewed ==
  ASSUME IInv, NEW r \in Reviewers, review[r].at \in {"item", "merge"}
  PROVE  /\ review[r].row \in Rows /\ review[r].master \in Master
         /\ master[review[r].row] # Absent
         /\ SeenStatus(r) \in {"approved", "rejected", "merged"} =>
              <<review[r].row, SeenStatus(r)>> \in decided
         /\ review[r].at = "merge" => review[r].target \in Rows
BY DEF IInv, GoodReview, SeenStatus

LEMMA DecideInv ==
  ASSUME IInv, NEW r \in Reviewers, NEW status \in ItemStatus, Decide(r, status) PROVE IInv'
<1>1. PICK s \in Rows : s = review[r].row /\ master[s] # Absent
  BY Reviewed DEF Decide, Reviewing
<1>2. /\ item' = [item EXCEPT ![s] = status] /\ decided' = decided \cup {<<s, status>>}
      /\ UNCHANGED <<master, match, reviews, Discovery>> /\ review' = [review EXCEPT ![r] = NoReview]
  BY <1>1 DEF Decide, Ends
<1>3. SuppliersExist' /\ DecisionsWereMade'
  BY <1>1, <1>2 DEF IInv, TypeOK, SuppliersExist, DecisionsWereMade
<1>4. /\ master' \in [Rows -> Master \cup {Absent}] /\ item' \in [Rows -> ItemStatus]
      /\ match' \in [Rows -> MatchStatus] /\ decided' \subseteq Rows \X ItemStatus /\ reviews' \in Nat
  BY <1>1, <1>2 DEF IInv, TypeOK
<1> QED  BY <1>2, <1>3, <1>4, NoReviewIsGood, NoReviewStaysGood, ReviewKeepsInv

LEMMA EditInv == ASSUME IInv, NEW r \in Reviewers, Edit(r) PROVE IInv'
<1>1. PICK s \in Rows, m \in Master : s = review[r].row /\ m = review[r].master
  BY Reviewed DEF Edit, Reviewing
<1>2. /\ master' = [master EXCEPT ![s] = m] /\ UNCHANGED <<item, match, decided, reviews, Discovery>>
      /\ review' = [review EXCEPT ![r] = NoReview]
  BY <1>1 DEF Edit, Ends
<1>3. /\ master' \in [Rows -> Master \cup {Absent}]
      /\ \A t \in Rows : master[t] # Absent => master'[t] # Absent
  BY <1>2, NamesAssumption DEF IInv, TypeOK
<1>4. SuppliersExist' /\ DecisionsWereMade'
  BY <1>2, <1>3 DEF IInv, SuppliersExist, DecisionsWereMade
<1>5. /\ item' \in [Rows -> ItemStatus] /\ match' \in [Rows -> MatchStatus]
      /\ decided' \subseteq Rows \X ItemStatus /\ reviews' \in Nat
  BY <1>2 DEF IInv, TypeOK
<1> QED  BY <1>2, <1>3, <1>4, <1>5, NoReviewIsGood, NoReviewStaysGood, ReviewKeepsInv

LEMMA ConfirmInv == ASSUME IInv, NEW r \in Reviewers, Confirm(r) PROVE IInv'
<1>1. PICK s \in Rows : s = review[r].row /\ <<s, "approved">> \in decided
  BY Reviewed DEF Confirm, Reviewing
<1>2. /\ match' = [match EXCEPT ![s] = "confirmed"] /\ UNCHANGED <<master, item, decided, reviews, Discovery>>
      /\ review' = [review EXCEPT ![r] = NoReview]
  BY <1>1 DEF Confirm, Ends
<1>3. SuppliersExist' /\ DecisionsWereMade'
  BY <1>1, <1>2 DEF IInv, TypeOK, SuppliersExist, DecisionsWereMade
<1>4. /\ master' \in [Rows -> Master \cup {Absent}] /\ item' \in [Rows -> ItemStatus]
      /\ match' \in [Rows -> MatchStatus] /\ decided' \subseteq Rows \X ItemStatus /\ reviews' \in Nat
  BY <1>2 DEF IInv, TypeOK, MatchStatus
<1> QED  BY <1>2, <1>3, <1>4, NoReviewIsGood, NoReviewStaysGood, ReviewKeepsInv

LEMMA MergeInv == ASSUME IInv, NEW r \in Reviewers, Merge(r) PROVE IInv'
<1>1. PICK s \in Rows, t \in Rows, m \in Master :
        s = review[r].row /\ t = review[r].target /\ m = review[r].master
  BY Reviewed DEF Merge, Reviewing
<1>2. /\ master' = [master EXCEPT ![s] = [m EXCEPT !.merged = t]]
      /\ item' = [item EXCEPT ![s] = "merged"] /\ decided' = decided \cup {<<s, "merged">>}
      /\ UNCHANGED <<reviews, Discovery>> /\ review' = [review EXCEPT ![r] = NoReview]
  BY <1>1 DEF Merge, Ends
<1>3. match' = match \/ match' = [match EXCEPT ![t] = "candidate"]
  <2>1. PICK copied \in BOOLEAN : match' = [match EXCEPT ![t] =
          IF copied /\ match[s] # "none" THEN "candidate" ELSE match[t]]
    BY <1>1 DEF Merge
  <2> QED  BY <2>1 DEF IInv, TypeOK
<1>4. [m EXCEPT !.merged = t] \in Master
  BY DEF Master
<1>5. /\ master' \in [Rows -> Master \cup {Absent}]
      /\ \A q \in Rows : master[q] # Absent => master'[q] # Absent
      /\ master'[s] # Absent
  BY <1>2, <1>4, NamesAssumption DEF IInv, TypeOK
<1>6. item' \in [Rows -> ItemStatus] /\ decided' \subseteq Rows \X ItemStatus /\ reviews' \in Nat
  BY <1>2 DEF IInv, TypeOK, ItemStatus
<1>7. match' \in [Rows -> MatchStatus] /\ \A q \in Rows : match'[q] = "confirmed" => match[q] = "confirmed"
  BY <1>3 DEF IInv, TypeOK, MatchStatus
<1>8. SuppliersExist' /\ DecisionsWereMade'
  BY <1>2, <1>5, <1>7 DEF IInv, TypeOK, SuppliersExist, DecisionsWereMade
<1> QED  BY <1>2, <1>5, <1>6, <1>7, <1>8, NoReviewIsGood, NoReviewStaysGood, ReviewKeepsInv

LEMMA CreateManualInv ==
  ASSUME IInv, NEW r \in Reviewers, NEW c \in Candidates, CreateManual(r, c) PROVE IInv'
<1>1. PICK f \in Assignments(review[r].seen, {c}) :
        /\ master' = [master EXCEPT ![f[c]] =
             IF @ = Absent THEN [company |-> c, merged |-> Absent] ELSE @]
        /\ item' = [item EXCEPT ![f[c]] = IF @ = "none" THEN "pending_review" ELSE @]
  BY DEF CreateManual
<1>2. PICK s \in Rows : s = f[c]
  BY DEF Assignments
<1>3. [company |-> c, merged |-> Absent] \in Master
  BY DEF Master
<1>4. /\ master' \in [Rows -> Master \cup {Absent}]
      /\ \A q \in Rows : master[q] # Absent => master'[q] # Absent
      /\ master'[s] # Absent
  BY <1>1, <1>2, <1>3, NamesAssumption DEF IInv, TypeOK
<1>5. /\ item' \in [Rows -> ItemStatus]
      /\ \A q \in Rows : item'[q] = item[q] \/ (q = s /\ item'[q] = "pending_review")
  BY <1>1, <1>2 DEF IInv, TypeOK, ItemStatus
<1>6. UNCHANGED <<match, decided, reviews, Discovery>> /\ review' = [review EXCEPT ![r] = NoReview]
  BY DEF CreateManual, Ends
<1>7. SuppliersExist' /\ DecisionsWereMade'
  BY <1>4, <1>5, <1>6 DEF IInv, SuppliersExist, DecisionsWereMade
<1>8. match' \in [Rows -> MatchStatus] /\ decided' \subseteq Rows \X ItemStatus /\ reviews' \in Nat
  BY <1>6 DEF IInv, TypeOK
<1> QED  BY <1>4, <1>5, <1>6, <1>7, <1>8, NoReviewIsGood, NoReviewStaysGood, ReviewKeepsInv

-----------------------------------------------------------------------------
(* Theorems *)

LEMMA NextInv == IInv /\ [Next]_vars => IInv'
<1> SUFFICES ASSUME IInv, [Next]_vars PROVE IInv'
  OBVIOUS
<1>1. CASE UNCHANGED vars
  BY <1>1 DEF vars, IInv, TypeOK, RunsExist, SuppliersExist, DecisionsWereMade, GoodWorker, GoodReview
<1>2. ASSUME NEW q \in Requests,
             RequestStep(q) \/ PublishRaises(q) \/ \E refresh \in BOOLEAN : RequestReads(q, refresh)
      PROVE  IInv'
  BY <1>2, RequestCreatesInv, PublishInv, PublishRaisesInv, RequestReadsInv DEF RequestStep
<1>3. ASSUME NEW w \in Workers, WorkerStep(w) \/ SearchFails(w) \/ DatabaseFails(w) \/ WorkerDies(w)
      PROVE  IInv'
  BY <1>3, ReceiveInv, StartSearchInv, SaveSearchInv, ControlInv, BeginsInv, DeduplicateInv,
     ItemsInv, MatchSuppliersInv, FailInv, LeavesInv
  DEF WorkerStep, Commits
<1>4. ASSUME NEW r \in Reviewers, ReviewStep(r) PROVE IInv'
  BY <1>4, ReadsInv, DecideInv, EditInv, ConfirmInv, MergeInv, CreateManualInv DEF ReviewStep
<1> QED  BY <1>1, <1>2, <1>3, <1>4 DEF Next

LEMMA Invariance == Spec => []IInv
BY InitInv, NextInv, PTL DEF Spec

\* Every row and everything in progress is well typed.
THEOREM TypeCorrect == Spec => []TypeOK
BY Invariance, PTL DEF IInv

\* Whatever stale reads the runs and the reviewers commit over each other: what
\* is approved, rejected or merged, and the supplier of a confirmed match, was
\* decided so by a reviewer.
THEOREM Decisions == Spec => []DecisionsWereMade
BY Invariance, PTL DEF IInv

-----------------------------------------------------------------------------
(* The runs are attended, as long as no message is delivered twice at once *)

\* A worker holds a message of the queue, and holds it alone.
HoldingInv ==
  /\ \A w \in Workers : worker[w].at = "idle" => worker[w].message = Absent
  /\ \A w \in Workers : worker[w].at # "idle" => worker[w].message \in broker
  /\ \A v, w \in Workers :
       v # w /\ worker[v].at # "idle" => worker[v].message # worker[w].message

\* A run has one message, or one request that is to publish it.
TokenInv ==
  /\ \A m, k \in broker : m.run = k.run => m = k
  /\ \A q \in Requests : request[q].at = "publish" =>
       /\ \A m \in broker : m.run # request[q].run
       /\ \A p \in Requests : p # q /\ request[p].at = "publish" =>
            request[p].run # request[q].run

IsOpen(row) == row.status \in {"queued", "running"}

\* Whoever returns leaves a run that is closed; one that is open has a token.
ClosingInv ==
  /\ \A w \in Workers : worker[w].at = "returned" => ~IsOpen(run[RunOf(w)])
  /\ \A n \in Exist : IsOpen(run[n]) /\ n \notin refused =>
       \/ \E q \in Requests : request[q].at = "publish" /\ request[q].run = n
       \/ \E m \in broker : m.run = n

HInv == HoldingInv /\ TokenInv /\ ClosingInv

\* A busy worker goes on, with its message and its run.
LEMMA GoesOnHolding ==
  ASSUME IInv, HInv, NEW w \in Workers, worker[w].at # "idle", NEW new \in WorkerState,
         worker' = [worker EXCEPT ![w] = new], new.message = worker[w].message, new.at # "idle",
         new.at = "returned" => ~IsOpen(run'[RunOf(w)]),
         \A n \in Runs : n # RunOf(w) => run'[n] = run[n],
         UNCHANGED <<request, broker, refused>>
  PROVE  HInv'
<1>1. /\ worker'[w] = new
      /\ \A v \in Workers : v # w => worker'[v] = worker[v]
  BY DEF IInv, TypeOK
<1>2. HoldingInv'
  BY <1>1 DEF HInv, HoldingInv
<1>3. TokenInv'
  BY DEF HInv, TokenInv
<1>4. worker[w].message \in broker /\ RunOf(w) = worker[w].message.run
  BY DEF HInv, HoldingInv, RunOf
<1>5. \A v \in Workers : v # w /\ worker[v].at # "idle" => RunOf(v) # RunOf(w) /\ RunOf(v) \in Runs
  BY <1>4, Busy DEF HInv, HoldingInv, TokenInv, RunOf
<1>6. \A v \in Workers : worker'[v].at = "returned" => ~IsOpen(run'[worker'[v].message.run])
  <2> SUFFICES ASSUME NEW v \in Workers, worker'[v].at = "returned"
               PROVE  ~IsOpen(run'[worker'[v].message.run])
    OBVIOUS
  <2>1. CASE v = w
    BY <1>1, <1>4, <2>1
  <2>2. CASE v # w
    BY <1>1, <1>5, <2>2 DEF HInv, ClosingInv, RunOf
  <2> QED  BY <2>1, <2>2
<1>7. ASSUME NEW n \in Runs, run'[n] # Absent, IsOpen(run'[n]), n \notin refused
      PROVE  \/ \E q \in Requests : request[q].at = "publish" /\ request[q].run = n
             \/ \E m \in broker : m.run = n
  <2>1. CASE n = RunOf(w)
    BY <1>4, <2>1
  <2>2. CASE n # RunOf(w)
    BY <1>7, <2>2 DEF HInv, ClosingInv, Exist
  <2> QED  BY <2>1, <2>2
<1>8. ClosingInv'
  BY <1>6, <1>7 DEF ClosingInv, IsOpen, RunOf, Exist
<1> QED  BY <1>2, <1>3, <1>8 DEF HInv

LEMMA GoesHolding ==
  ASSUME IInv, HInv, NEW w \in Workers, worker[w].at # "idle", NEW at \in Stops, Goes(w, at),
         at = "returned" => ~IsOpen(run'[RunOf(w)]),
         \A n \in Runs : n # RunOf(w) => run'[n] = run[n],
         UNCHANGED <<request, broker, refused>>
  PROVE  HInv'
<1>1. PICK x \in WorkerState : x = worker[w]
  BY Busy
<1>2. PICK new : new = [x EXCEPT !.at = at, !.seen = NothingSeen]
  OBVIOUS
<1>3. NothingSeen \in Seen
  BY DEF NothingSeen, Seen, ItemStatus
<1>4. new \in WorkerState /\ new.message = worker[w].message /\ new.at = at /\ at # "idle"
  BY <1>1, <1>2, <1>3 DEF WorkerState, Stops
<1>5. worker' = [worker EXCEPT ![w] = new]
  BY <1>1, <1>2 DEF Goes
<1> QED  BY <1>4, <1>5, GoesOnHolding

LEMMA OpensHolding == ASSUME IInv, HInv, NEW w \in Workers, Begins(w) PROVE HInv'
<1>1. Known \in Seen /\ item \in Seen /\ match \in Seen
  BY DEF Known, Seen, IInv, TypeOK, ItemStatus
<1>2. PICK seen \in Seen, at \in Opened :
        /\ Opens(w, at, seen) /\ worker[w].at # "idle"
        /\ UNCHANGED <<run, request, broker, refused>>
  BY <1>1 DEF Begins, OpenDeduplication, OpenContacts, OpenMatching, OpenCompletion, Open, At, Opened
<1>3. PICK x \in WorkerState : x = worker[w]
  BY <1>2, Busy
<1>4. PICK new : new = [x EXCEPT !.at = at, !.seen = seen]
  OBVIOUS
<1>5. new \in WorkerState /\ new.message = worker[w].message /\ new.at = at
  BY <1>3, <1>4 DEF WorkerState, Opened
<1>6. worker' = [worker EXCEPT ![w] = new] /\ at # "idle" /\ at # "returned"
  BY <1>2, <1>3, <1>4 DEF Opens, Opened
<1> QED  BY <1>2, <1>5, <1>6, GoesOnHolding

\* The steps after which a worker still has something to do.
LEMMA WorksOnHolding ==
  ASSUME IInv, HInv, NEW w \in Workers,
         \/ StartSearch(w) \/ SearchFails(w) \/ \E found \in SUBSET Candidates : SaveSearch(w, found)
         \/ SkipDeduplication(w) \/ SkipContacts(w) \/ SkipMatching(w)
         \/ NotRunning(w) \/ DatabaseFails(w) \/ MatchConflicts(w)
         \/ Deduplicate(w) \/ FindContacts(w) \/ MatchSuppliers(w)
  PROVE  HInv'
<1>1. worker[w].at # "idle" /\ UNCHANGED <<request, broker, refused>>
  BY DEF StartSearch, SearchFails, SaveSearch, SkipDeduplication, SkipContacts, SkipMatching, Skip,
         NotRunning, DatabaseFails, MatchConflicts, Deduplicate, FindContacts, MatchSuppliers, At,
         Opened
<1>2. \E at \in Stops \ {"returned"} : Goes(w, at)
  BY DEF StartSearch, SearchFails, SaveSearch, SkipDeduplication, SkipContacts, SkipMatching, Skip,
         NotRunning, DatabaseFails, MatchConflicts, Deduplicate, FindContacts, MatchSuppliers, Stops
<1>3. RunOf(w) \in Runs /\ run \in [Runs -> Run \cup {Absent}]
  BY <1>1, Busy DEF IInv, TypeOK
<1>4. \A n \in Runs : n # RunOf(w) => run'[n] = run[n]
  <2>1. ASSUME StartSearch(w) \/ \E found \in SUBSET Candidates : SaveSearch(w, found)
        PROVE  \A n \in Runs : n # RunOf(w) => run'[n] = run[n]
    BY <1>3, <2>1 DEF StartSearch, SaveSearch, Started
  <2>2. ASSUME Deduplicate(w)
        PROVE  \A n \in Runs : n # RunOf(w) => run'[n] = run[n]
    <3>1. \E done : run' = [run EXCEPT ![RunOf(w)].stage = Contacts, ![RunOf(w)].done = done]
      BY <2>2, Zenon DEF Deduplicate
    <3> QED  BY <1>3, <3>1
  <2>3. ASSUME FindContacts(w) \/ MatchSuppliers(w)
        PROVE  \A n \in Runs : n # RunOf(w) => run'[n] = run[n]
    <3>1. \E stage : run' = [run EXCEPT ![RunOf(w)].stage = stage]
      BY <2>3, Zenon DEF FindContacts, MatchSuppliers
    <3> QED  BY <1>3, <3>1
  <2> QED  BY <2>1, <2>2, <2>3 DEF SearchFails, SkipDeduplication, SkipContacts, SkipMatching, Skip,
              NotRunning, DatabaseFails, MatchConflicts
<1> QED  BY <1>1, <1>2, <1>4, GoesHolding

\* The steps that close a run.
LEMMA ClosesHolding ==
  ASSUME IInv, HInv, NEW w \in Workers, SkipCompletion(w) \/ Complete(w) \/ Fail(w) PROVE HInv'
<1>1. worker[w].at # "idle" /\ UNCHANGED <<request, broker, refused>>
  BY DEF SkipCompletion, Complete, Fail, At
<1>2. \E at \in Stops : Goes(w, at)
  BY DEF SkipCompletion, Complete, Fail, Stops
<1>3. PICK old \in Run : old = run[RunOf(w)] /\ RunOf(w) \in Runs /\ run \in [Runs -> Run \cup {Absent}]
  BY <1>1, Busy DEF IInv, TypeOK
<1>4. ~IsOpen(run'[RunOf(w)]) /\ \A n \in Runs : n # RunOf(w) => run'[n] = run[n]
  <2>1. CASE SkipCompletion(w)
    BY <1>3, <2>1 DEF SkipCompletion, IsOpen
  <2>2. CASE Complete(w)
    <3>1. run' = [run EXCEPT ![RunOf(w)].status = "completed", ![RunOf(w)].stage = Completed]
      BY <2>2 DEF Complete
    <3> QED  BY <1>3, <3>1 DEF IsOpen, Run
  <2>3. CASE Fail(w)
    <3>1. run' = [run EXCEPT ![RunOf(w)].status = IF @ = "completed" THEN @ ELSE "failed"]
      BY <2>3 DEF Fail
    <3> QED  BY <1>3, <3>1 DEF IsOpen, Run
  <2> QED  BY <2>1, <2>2, <2>3
<1> QED  BY <1>1, <1>2, <1>4, GoesHolding

\* Without overlap a message is received by one worker at a time.
LEMMA ReceiveHolding ==
  ASSUME "overlap" \notin Faults, IInv, HInv, NEW w \in Workers, NEW m \in broker, Receive(w, m)
  PROVE  HInv'
<1>1. /\ ~Held(m) /\ worker[w].at = "idle" /\ UNCHANGED <<run, request, broker, refused>>
      /\ worker' = [worker EXCEPT ![w] = [at |-> "taken", message |-> m, seen |-> NothingSeen]]
  BY DEF Receive, At
<1>2. /\ worker'[w] = [at |-> "taken", message |-> m, seen |-> NothingSeen]
      /\ \A v \in Workers : v # w => worker'[v] = worker[v]
  BY <1>1 DEF IInv, TypeOK
<1>3. \A v \in Workers : worker[v].message # m
  BY <1>1 DEF Held
<1>4. HoldingInv'
  BY <1>1, <1>2, <1>3 DEF HInv, HoldingInv
<1>5. TokenInv'
  BY <1>1 DEF HInv, TokenInv
<1>6. ClosingInv'
  BY <1>1, <1>2 DEF HInv, ClosingInv, RunOf, Exist
<1> QED  BY <1>4, <1>5, <1>6 DEF HInv

\* A worker that is done takes its message with it, or puts the next in its place.
LEMMA LeavesHolding ==
  ASSUME IInv, HInv, NEW w \in Workers, Retry(w) \/ Acknowledge(w) \/ WorkerDies(w) PROVE HInv'
<1>1. /\ worker[w].at # "idle" /\ worker' = [worker EXCEPT ![w] = Idle]
      /\ UNCHANGED <<run, request, refused>>
  BY DEF Retry, Acknowledge, WorkerDies, At
<1>2. worker'[w] = Idle /\ \A v \in Workers : v # w => worker'[v] = worker[v]
  BY <1>1 DEF IInv, TypeOK
<1>3. PICK m \in Message : m = worker[w].message /\ m \in broker /\ m.run = RunOf(w)
  BY <1>1, Busy DEF HInv, HoldingInv, RunOf
<1>4. \A v \in Workers : v # w /\ worker[v].at # "idle" => worker[v].message \in broker \ {m}
  BY <1>1, <1>3 DEF HInv, HoldingInv
<1>5. \A v \in Workers : v # w /\ worker[v].at = "returned" => ~IsOpen(run[RunOf(v)])
  BY DEF HInv, ClosingInv
<1>9. Absent \notin broker
  BY NamesAssumption DEF IInv, TypeOK
<1>6. CASE Retry(w)
  <2>1. PICK next : next = [m EXCEPT !.try = @ + 1]
    OBVIOUS
  <2>2. next.run = m.run /\ broker' = (broker \ {m}) \cup {next}
    BY <1>3, <1>6, <2>1 DEF Retry, Message
  <2>3. HoldingInv'
    BY <1>2, <1>4, <1>9, <2>2 DEF HInv, HoldingInv, Idle
  <2>4. TokenInv'
    BY <1>1, <1>3, <2>2 DEF HInv, TokenInv
  <2>5. \A n \in Runs : (\E k \in broker : k.run = n) => \E k \in broker' : k.run = n
    BY <2>2
  <2>6. ClosingInv'
    BY <1>1, <1>2, <1>5, <2>5 DEF HInv, ClosingInv, RunOf, Exist, Idle
  <2> QED  BY <2>3, <2>4, <2>6 DEF HInv
<1>7. CASE Acknowledge(w)
  <2>1. broker' = broker \ {m} /\ ~IsOpen(run[m.run])
    BY <1>3, <1>7 DEF Acknowledge, At, HInv, ClosingInv
  <2>2. HoldingInv'
    BY <1>2, <1>4, <1>9, <2>1 DEF HInv, HoldingInv, Idle
  <2>3. TokenInv'
    BY <1>1, <2>1 DEF HInv, TokenInv
  <2>4. \A n \in Runs : (\E k \in broker : k.run = n) => n = m.run \/ \E k \in broker' : k.run = n
    BY <2>1
  <2>5. ClosingInv'
    BY <1>1, <1>2, <1>5, <2>1, <2>4 DEF HInv, ClosingInv, RunOf, Exist, Idle
  <2> QED  BY <2>2, <2>3, <2>5 DEF HInv
<1>8. CASE WorkerDies(w)
  <2>1. broker' = broker
    BY <1>8 DEF WorkerDies
  <2>2. HoldingInv'
    BY <1>2, <1>4, <1>9, <2>1 DEF HInv, HoldingInv, Idle
  <2>3. TokenInv'
    BY <1>1, <2>1 DEF HInv, TokenInv
  <2>4. ClosingInv'
    BY <1>1, <1>2, <1>5, <2>1 DEF HInv, ClosingInv, RunOf, Exist, Idle
  <2> QED  BY <2>2, <2>3, <2>4 DEF HInv
<1> QED  BY <1>6, <1>7, <1>8

LEMMA RequestHolding ==
  ASSUME IInv, HInv, NEW q \in Requests,
         RequestStep(q) \/ PublishRaises(q) \/ \E refresh \in BOOLEAN : RequestReads(q, refresh)
  PROVE  HInv'
<1>1. worker' = worker /\ request \in [Requests -> RequestState] /\ run \in [Runs -> Run \cup {Absent}]
  BY DEF RequestStep, RequestCreates, Publish, PublishRaises, RequestReads, IInv, TypeOK
<1>2. \A p \in Requests : p # q => request'[p] = request[p]
  BY <1>1 DEF RequestStep, RequestCreates, Publish, PublishRaises, RequestReads
<1>3. PICK x \in RequestState : x = request[q]
  BY <1>1
<1>4. x.run \in Runs /\ \A m \in broker : m.run \in Runs /\ run[m.run] # Absent
  BY DEF RequestState, IInv, TypeOK, RunsExist, Message
<1>5. CASE \/ \E refresh \in BOOLEAN : RequestReads(q, refresh)
           \/ RequestCreates(q) /\ run[x.run] # Absent
  <2>1. /\ request'[q].at # "publish" /\ x.at # "publish"
        /\ UNCHANGED <<run, broker, refused>>
    BY <1>1, <1>3, <1>5, NoRequestIsTyped DEF RequestReads, RequestCreates
  <2>2. HoldingInv' /\ TokenInv'
    BY <1>1, <1>2, <2>1 DEF HInv, HoldingInv, TokenInv
  <2>3. ClosingInv'
    BY <1>1, <1>2, <1>3, <2>1 DEF HInv, ClosingInv, RunOf, Exist
  <2> QED  BY <2>2, <2>3 DEF HInv
<1>6. CASE RequestCreates(q) /\ run[x.run] = Absent
  <2>1. /\ request'[q].at = "publish" /\ request'[q].run = x.run
        /\ run' = [run EXCEPT ![x.run] = NewRun] /\ UNCHANGED <<broker, refused>>
    BY <1>1, <1>3, <1>6 DEF RequestCreates, RequestState
  <2>2. \A p \in Requests : request[p].at = "publish" => run[request[p].run] # Absent
    BY DEF IInv, RunsExist
  <2>3. HoldingInv' /\ TokenInv'
    BY <1>1, <1>2, <1>4, <1>6, <2>1, <2>2 DEF HInv, HoldingInv, TokenInv
  <2>4. \A n \in Runs : n # x.run => run'[n] = run[n]
    BY <1>1, <2>1
  <2>5. \A w \in Workers : worker[w].at = "returned" => RunOf(w) \in Runs /\ RunOf(w) # x.run
    BY <1>4, <1>6 DEF HInv, HoldingInv, RunOf
  <2>6. x.at # "publish"
    BY <1>3, <1>6 DEF RequestCreates
  <2>7. ClosingInv'
    BY <1>1, <1>2, <1>3, <2>1, <2>4, <2>5, <2>6 DEF HInv, ClosingInv, RunOf, Exist
  <2> QED  BY <2>3, <2>7 DEF HInv
<1>7. CASE Publish(q)
  <2>1. PICK m : m = [run |-> x.run, try |-> 0]
    OBVIOUS
  <2>2. /\ x.at = "publish" /\ broker' = broker \cup {m} /\ m.run = x.run
        /\ request'[q] = NoRequest /\ UNCHANGED <<run, refused>>
    BY <1>1, <1>3, <1>7, <2>1 DEF Publish
  <2>3. \A k \in broker : k.run # x.run
    BY <1>3, <2>2 DEF HInv, TokenInv
  <2>4. HoldingInv'
    BY <1>1, <2>2 DEF HInv, HoldingInv
  <2>5. TokenInv'
    BY <1>1, <1>2, <1>3, <2>2, <2>3, NoRequestIsTyped DEF HInv, TokenInv
  <2>6. ClosingInv'
    BY <1>1, <1>2, <1>3, <2>2, NoRequestIsTyped DEF HInv, ClosingInv, RunOf, Exist
  <2> QED  BY <2>4, <2>5, <2>6 DEF HInv
<1>8. CASE PublishRaises(q)
  <2>1. /\ refused' = refused \cup {x.run} /\ request'[q] = NoRequest /\ UNCHANGED <<run, broker>>
    BY <1>1, <1>3, <1>8 DEF PublishRaises
  <2>2. HoldingInv' /\ TokenInv'
    BY <1>1, <1>2, <2>1, NoRequestIsTyped DEF HInv, HoldingInv, TokenInv
  <2>3. ClosingInv'
    BY <1>1, <1>2, <1>3, <2>1, NoRequestIsTyped DEF HInv, ClosingInv, RunOf, Exist
  <2> QED  BY <2>2, <2>3 DEF HInv
<1> QED  BY <1>5, <1>6, <1>7, <1>8 DEF RequestStep

LEMMA ElsewhereHolding ==
  ASSUME HInv, UNCHANGED <<run, request, broker, worker, refused>> PROVE HInv'
BY DEF HInv, HoldingInv, TokenInv, ClosingInv, RunOf, Exist

LEMMA NextHolding == "overlap" \notin Faults /\ IInv /\ HInv /\ [Next]_vars => HInv'
<1> SUFFICES ASSUME "overlap" \notin Faults, IInv, HInv, [Next]_vars PROVE HInv'
  OBVIOUS
<1>1. CASE UNCHANGED vars
  BY <1>1, ElsewhereHolding DEF vars
<1>2. ASSUME NEW w \in Workers, WorkerStep(w) \/ SearchFails(w) \/ DatabaseFails(w) \/ WorkerDies(w)
      PROVE  HInv'
  BY <1>2, ReceiveHolding, LeavesHolding, WorksOnHolding, OpensHolding, ClosesHolding
  DEF WorkerStep, Skips, Commits
<1>3. ASSUME NEW r \in Reviewers, ReviewStep(r) PROVE HInv'
  <2>1. UNCHANGED Discovery
    BY <1>3 DEF ReviewStep, ItemReads, MergeReads, ManualReads, ReviewRefused, Decide, Edit, Confirm,
                Merge, CreateManual
  <2> QED  BY <2>1, ElsewhereHolding DEF Discovery
<1> QED  BY <1>1, <1>2, <1>3, RequestHolding DEF Next

LEMMA InitHolding == Init => HInv
<1> SUFFICES ASSUME Init PROVE HInv
  OBVIOUS
<1>1. Exist = {} /\ broker = {} /\ \A w \in Workers : worker[w] = Idle
  BY DEF Init, Exist
<1>2. \A q \in Requests : request[q].at # "publish"
  BY NoRequestIsTyped DEF Init
<1> QED  BY <1>1, <1>2 DEF HInv, HoldingInv, TokenInv, ClosingInv, Idle

LEMMA Attending == IInv /\ HInv => OpenRunsAreAttended
<1> SUFFICES ASSUME IInv, HInv, NEW n \in Exist, IsOpen(run[n]), n \notin refused PROVE Attended(n)
  BY DEF OpenRunsAreAttended, IsOpen
<1>1. CASE \E q \in Requests : request[q].at = "publish" /\ request[q].run = n
  BY <1>1 DEF Attended
<1>2. ASSUME NEW m \in broker, m.run = n PROVE Attended(n)
  <2>1. ASSUME NEW w \in Workers, worker[w].message = m PROVE Attended(n)
    <3>1. m # Absent
      BY NamesAssumption DEF IInv, TypeOK
    <3>2. worker[w].at # "idle" /\ RunOf(w) = n
      BY <1>2, <2>1, <3>1 DEF HInv, HoldingInv, RunOf
    <3>3. worker[w].at # "returned"
      BY <3>2 DEF HInv, ClosingInv
    <3> QED  BY <3>2, <3>3 DEF Attended, At
  <2> QED  BY <1>2, <2>1 DEF Attended, Held
<1> QED  BY <1>1, <1>2 DEF HInv, ClosingInv, Exist

\* Through refused publications, failures, retries and deaths of workers, a run
\* that is queued or running is taken care of, unless the queue refused it, as
\* long as no message is delivered again while a worker still holds it.
THEOREM Attendance == "overlap" \notin Faults => (Spec => []OpenRunsAreAttended)
<1> SUFFICES ASSUME "overlap" \notin Faults PROVE Spec => []OpenRunsAreAttended
  OBVIOUS
<1>1. Init => HInv
  BY InitHolding
<1>2. IInv /\ HInv /\ [Next]_vars => HInv'
  BY NextHolding
<1> QED  BY <1>1, <1>2, Invariance, Attending, PTL DEF Spec

-----------------------------------------------------------------------------
(* What a completed run has done *)

\* The stage of a run says what it has done: up to the deduplication nothing,
\* and past it every candidate has its supplier.
GoodRow(row) ==
  /\ row.stage <= Deduplication => row.done = {}
  /\ row.stage > Deduplication => {p[1] : p \in row.done} = row.raw
  /\ row.status = "completed" => row.stage = Completed

\* A worker is where the stage of its run has got to.
GoodStage(at, stage) ==
  /\ at = "searching" => stage <= Search
  /\ at = "in_deduplication" => stage <= Deduplication
  /\ at \in {"contacts", "in_contacts"} => stage >= Contacts
  /\ at \in {"matching", "in_matching"} => stage >= Matching
  /\ at \in {"completion", "in_completion"} => stage >= Review

ProgressInv ==
  /\ \A n \in Exist : GoodRow(run[n])
  /\ \A w \in Workers : GoodStage(worker[w].at, run[RunOf(w)].stage)

\* Two workers that are busy work on two runs.
LEMMA Sole ==
  ASSUME IInv, HInv, NEW v \in Workers, NEW w \in Workers, v # w,
         worker[v].at # "idle", worker[w].at # "idle"
  PROVE  RunOf(v) # RunOf(w)
<1>1. worker[v].message \in broker /\ worker[w].message \in broker
  BY DEF HInv, HoldingInv
<1> QED  BY <1>1 DEF HInv, HoldingInv, TokenInv, RunOf

\* A worker moves on, and its run with it.
LEMMA ProgressMoves ==
  ASSUME IInv, HInv, ProgressInv, NEW w \in Workers, worker[w].at # "idle",
         NEW at, NEW seen, worker' = [worker EXCEPT ![w].at = at, ![w].seen = seen],
         NEW row \in Run, run' = [run EXCEPT ![RunOf(w)] = row],
         GoodRow(row), GoodStage(at, row.stage)
  PROVE  ProgressInv'
<1>1. run \in [Runs -> Run \cup {Absent}] /\ RunOf(w) \in Runs /\ worker \in [Workers -> WorkerState]
  BY Busy DEF IInv, TypeOK
<1>2. /\ run'[RunOf(w)] = row
      /\ \A n \in Runs : n # RunOf(w) => run'[n] = run[n]
  BY <1>1
<1>3. /\ worker'[w].at = at /\ worker'[w].message = worker[w].message
      /\ \A v \in Workers : v # w => worker'[v] = worker[v]
  BY <1>1 DEF WorkerState
<1>4. \A n \in Exist' : GoodRow(run'[n])
  BY <1>2 DEF Exist, ProgressInv
<1>5. ASSUME NEW v \in Workers PROVE GoodStage(worker'[v].at, run'[RunOf(v)'].stage)
  <2>1. CASE v = w
    BY <1>2, <1>3, <2>1 DEF RunOf
  <2>2. CASE v # w /\ worker[v].at = "idle"
    BY <1>3, <2>2 DEF GoodStage
  <2>3. CASE v # w /\ worker[v].at # "idle"
    <3>1. RunOf(v)' = RunOf(v) /\ RunOf(v) \in Runs /\ RunOf(v) # RunOf(w)
      BY <1>3, <2>3, Sole, Busy DEF RunOf
    <3> QED  BY <1>2, <1>3, <2>3, <3>1 DEF ProgressInv
  <2> QED  BY <2>1, <2>2, <2>3
<1> QED  BY <1>4, <1>5 DEF ProgressInv

\* A worker moves on and leaves its run as it was.
LEMMA ProgressWaits ==
  ASSUME IInv, HInv, ProgressInv, NEW w \in Workers, worker[w].at # "idle",
         NEW at, NEW seen, worker' = [worker EXCEPT ![w].at = at, ![w].seen = seen],
         run' = run, GoodStage(at, run[RunOf(w)].stage)
  PROVE  ProgressInv'
<1>1. run[RunOf(w)] \in Run /\ RunOf(w) \in Runs /\ run \in [Runs -> Run \cup {Absent}]
  BY Busy DEF IInv, TypeOK
<1>2. run' = [run EXCEPT ![RunOf(w)] = run[RunOf(w)]]
  BY <1>1
<1>3. run[RunOf(w)] # Absent
  BY <1>1, NamesAssumption
<1>4. GoodRow(run[RunOf(w)])
  BY <1>1, <1>3 DEF ProgressInv, Exist
<1> QED  BY <1>1, <1>2, <1>4, ProgressMoves

\* What a deduplication writes: every candidate of its run has a supplier, and
\* only suppliers of the run that had no item get one.
LEMMA Deduplicated ==
  ASSUME IInv, NEW w \in Workers, Deduplicate(w)
  PROVE  \E row \in Run :
           /\ run' = [run EXCEPT ![RunOf(w)] = row]
           /\ row.stage = Contacts /\ row.status = "running"
           /\ {p[1] : p \in row.done} = row.raw
           /\ \A s \in Rows : \/ item'[s] = item[s]
                              \/ item'[s] = "candidate" /\ s \in {p[2] : p \in row.done}
           /\ \A p \in row.done : item'[p[2]] # "none"
<1>1. worker[w].at # "idle"
  BY DEF Deduplicate, At
<1>2. PICK old \in Run : old = run[RunOf(w)] /\ RunOf(w) \in Runs
  BY <1>1, Busy
<1>3. PICK f \in Assignments(worker[w].seen, run[RunOf(w)].raw) :
        /\ item' = [s \in Rows |->
             IF item[s] = "none" /\ (\E c \in run[RunOf(w)].raw : f[c] = s)
               THEN "candidate" ELSE item[s]]
        /\ run' = [run EXCEPT ![RunOf(w)].stage = Contacts,
                              ![RunOf(w)].done = {<<c, f[c]>> : c \in run[RunOf(w)].raw}]
  BY Zenon DEF Deduplicate
<1>4. f \in [old.raw -> Rows] /\ old.raw \subseteq Candidates
  BY <1>2 DEF Assignments, Run
<1>5. PICK done : done = {<<c, f[c]>> : c \in old.raw}
  OBVIOUS
<1>6. done \subseteq Candidates \X Rows
  BY <1>4, <1>5
<1>7. PICK row : row = [old EXCEPT !.stage = Contacts, !.done = done]
  OBVIOUS
<1>8. row \in Run /\ row.stage = Contacts /\ row.status = old.status
      /\ row.raw = old.raw /\ row.done = done
  BY <1>6, <1>7, StagesAreTyped DEF Run
<1>9. run' = [run EXCEPT ![RunOf(w)] = row]
  BY <1>2, <1>3, <1>5, <1>7 DEF IInv, TypeOK
<1>10. old.status = "running"
  BY <1>2 DEF Deduplicate
<1>11. {p[1] : p \in done} = old.raw /\ {p[2] : p \in done} = {f[c] : c \in old.raw}
  <2>1. \A p \in done : \E c \in old.raw : p[1] = c /\ p[2] = f[c]
    BY <1>5
  <2>2. \A c \in old.raw : \E p \in done : p[1] = c /\ p[2] = f[c]
    <3> SUFFICES ASSUME NEW c \in old.raw PROVE \E p \in done : p[1] = c /\ p[2] = f[c]
      OBVIOUS
    <3>1. <<c, f[c]>> \in done
      BY <1>5
    <3> QED  BY <3>1
  <2> QED  BY <2>1, <2>2
<1>12. \A s \in Rows : \/ item'[s] = item[s]
                       \/ item'[s] = "candidate" /\ s \in {f[c] : c \in old.raw}
  BY <1>2, <1>3
<1>13. \A c \in old.raw : item'[f[c]] # "none"
  BY <1>2, <1>3, <1>4
<1>14. \A p \in done : item'[p[2]] # "none"
  BY <1>5, <1>13
<1> QED  BY <1>8, <1>9, <1>10, <1>11, <1>12, <1>14

LEMMA ProgressPreserved ==
  "overlap" \notin Faults /\ IInv /\ HInv /\ ProgressInv /\ [Next]_vars => ProgressInv'
<1> SUFFICES ASSUME "overlap" \notin Faults, IInv, HInv, ProgressInv, [Next]_vars
             PROVE  ProgressInv'
  OBVIOUS
<1> USE DEF Search, Deduplication, Contacts, Matching, Review, Completed
<1>t. /\ run \in [Runs -> Run \cup {Absent}] /\ worker \in [Workers -> WorkerState]
      /\ request \in [Requests -> RequestState]
  BY DEF IInv, TypeOK
<1>s. /\ 1 \in Stage /\ 2 \in Stage /\ 6 \in Stage
      /\ \A stage \in 4..5 : stage \in Stage
  BY DEF Stage
<1>r. {"running", "completed"} \subseteq RunStatus
  BY DEF RunStatus
<1>1. CASE UNCHANGED <<run, worker>>
  BY <1>1 DEF ProgressInv, Exist, RunOf, GoodRow, GoodStage
<1>2. ASSUME NEW q \in Requests, RequestCreates(q)
      PROVE  ProgressInv'
  <2>1. CASE run' = run
    BY <1>1, <1>2, <2>1 DEF RequestCreates
  <2>2. CASE run' # run
    <3>1. PICK n \in Runs : run[n] = Absent /\ run' = [run EXCEPT ![n] = NewRun]
      BY <1>2, <1>t, <2>2 DEF RequestCreates, RequestState
    <3>2. worker' = worker
      BY <1>2 DEF RequestCreates
    <3>3. /\ run'[n] = NewRun
          /\ \A m \in Runs : m # n => run'[m] = run[m]
      BY <1>t, <3>1
    <3>4. GoodRow(NewRun)
      BY DEF GoodRow, NewRun
    <3>5. \A m \in Exist' : GoodRow(run'[m])
      BY <3>3, <3>4 DEF ProgressInv, Exist
    <3>6. ASSUME NEW v \in Workers PROVE GoodStage(worker'[v].at, run'[RunOf(v)'].stage)
      <4>1. CASE worker[v].at = "idle"
        BY <3>2, <4>1 DEF GoodStage
      <4>2. CASE worker[v].at # "idle"
        <5>1. RunOf(v)' = RunOf(v) /\ RunOf(v) \in Runs /\ RunOf(v) # n
          BY <3>1, <3>2, <4>2, Busy, NamesAssumption DEF RunOf
        <5> QED  BY <3>2, <3>3, <5>1 DEF ProgressInv
      <4> QED  BY <4>1, <4>2
    <3> QED  BY <3>5, <3>6 DEF ProgressInv
  <2> QED  BY <2>1, <2>2
<1>3. ASSUME NEW w \in Workers, NEW x \in WorkerState, x.at \in {"idle", "taken"},
             worker' = [worker EXCEPT ![w] = x], run' = run
      PROVE  ProgressInv'
  <2>1. worker'[w] = x /\ \A v \in Workers : v # w => worker'[v] = worker[v]
    BY <1>3, <1>t
  <2>2. ASSUME NEW v \in Workers PROVE GoodStage(worker'[v].at, run'[RunOf(v)'].stage)
    BY <1>3, <2>1 DEF ProgressInv, RunOf, GoodStage
  <2> QED  BY <1>3, <2>2 DEF ProgressInv, Exist
<1>4. ASSUME NEW w \in Workers,
             \/ \E m \in broker : Receive(w, m)
             \/ Retry(w) \/ Acknowledge(w) \/ WorkerDies(w)
      PROVE  ProgressInv'
  <2>1. CASE \E m \in broker : Receive(w, m)
    <3>1. PICK m \in Message :
            worker' = [worker EXCEPT ![w] = [at |-> "taken", message |-> m, seen |-> NothingSeen]]
      BY <2>1 DEF Receive, IInv, TypeOK
    <3>2. [at |-> "taken", message |-> m, seen |-> NothingSeen] \in WorkerState
      BY DEF WorkerState, NothingSeen, Seen, ItemStatus
    <3> QED  BY <1>3, <2>1, <3>1, <3>2 DEF Receive
  <2>2. CASE Retry(w) \/ Acknowledge(w) \/ WorkerDies(w)
    BY <1>3, <2>2, IdleIsGood DEF Retry, Acknowledge, WorkerDies
  <2> QED  BY <1>4, <2>1, <2>2
<1>5. ASSUME NEW w \in Workers, worker[w].at # "idle"
      PROVE  /\ run[RunOf(w)] \in Run /\ RunOf(w) \in Runs
             /\ GoodRow(run[RunOf(w)]) /\ GoodStage(worker[w].at, run[RunOf(w)].stage)
             /\ run[RunOf(w)].stage \in 0..6
  <2>1. run[RunOf(w)] \in Run /\ RunOf(w) \in Runs /\ run[RunOf(w)] # Absent
    BY <1>5, Busy, NamesAssumption
  <2>2. run[RunOf(w)].stage \in 0..6
    BY <2>1 DEF Run, Stage
  <2> QED  BY <2>1, <2>2 DEF ProgressInv, Exist
<1>6. ASSUME NEW w \in Workers,
             \/ SearchFails(w) \/ NotRunning(w) \/ DatabaseFails(w) \/ MatchConflicts(w)
             \/ SkipCompletion(w)
      PROVE  ProgressInv'
  <2>1. /\ worker[w].at # "idle" /\ run' = run
        /\ \E at \in {"search_failed", "raising", "returned"} : Goes(w, at)
    BY <1>6 DEF SearchFails, NotRunning, DatabaseFails, MatchConflicts, SkipCompletion, At, Opened
  <2> QED  BY <2>1, ProgressWaits DEF Goes, GoodStage
<1>7. ASSUME NEW w \in Workers, SkipDeduplication(w) \/ SkipContacts(w) \/ SkipMatching(w)
      PROVE  ProgressInv'
  <2>1. PICK at \in {"deduplication", "contacts", "matching"}, stage \in 2..4,
             next \in {"contacts", "matching", "completion"} :
          /\ Skip(w, at, stage, next)
          /\ next = "contacts" => stage = 2
          /\ next = "matching" => stage = 3
          /\ next = "completion" => stage = 4
    BY <1>7 DEF SkipDeduplication, SkipContacts, SkipMatching
  <2>2. worker[w].at # "idle" /\ run[RunOf(w)].stage > stage /\ Goes(w, next) /\ run' = run
    BY <2>1 DEF Skip, At
  <2>3. GoodStage(next, run[RunOf(w)].stage)
    BY <2>1, <2>2, <1>5 DEF GoodStage
  <2> QED  BY <2>2, <2>3, ProgressWaits DEF Goes
<1>8. ASSUME NEW w \in Workers, Begins(w)
      PROVE  ProgressInv'
  <2>1. PICK seen \in {Known, item, match}, at \in Opened :
          /\ worker[w].at # "idle" /\ run' = run /\ Opens(w, at, seen)
          /\ at = "in_deduplication" => run[RunOf(w)].stage <= 2
          /\ at = "in_contacts" => worker[w].at = "contacts"
          /\ at = "in_matching" => worker[w].at = "matching"
          /\ at = "in_completion" => worker[w].at = "completion"
    BY <1>8 DEF Begins, OpenDeduplication, OpenContacts, OpenMatching, OpenCompletion, Open, At,
       Opened
  <2>2. GoodStage(at, run[RunOf(w)].stage)
    BY <2>1, <1>5 DEF GoodStage, Opened
  <2> QED  BY <2>1, <2>2, ProgressWaits DEF Opens
<1>9. ASSUME NEW w \in Workers, StartSearch(w)
      PROVE  ProgressInv'
  <2>1. PICK old \in Run : old = run[RunOf(w)] /\ RunOf(w) \in Runs /\ worker[w].at # "idle"
    BY <1>9, <1>5 DEF StartSearch, At
  <2>2. CASE old.stage > 1
    <3>1. Goes(w, "deduplication") /\ run' = run
      BY <1>9, <2>1, <2>2 DEF StartSearch
    <3>2. GoodStage("deduplication", run[RunOf(w)].stage)
      BY DEF GoodStage
    <3> QED  BY <2>1, <3>1, <3>2, ProgressWaits DEF Goes
  <2>3. CASE ~(old.stage > 1)
    <3>1. PICK row : row = [old EXCEPT !.status = "running", !.stage = 1]
      OBVIOUS
    <3>2. run' = [run EXCEPT ![RunOf(w)] = row] /\ Goes(w, "searching")
      BY <1>9, <1>t, <2>1, <2>3, <3>1 DEF StartSearch, Started
    <3>3. row \in Run /\ row.stage = 1 /\ row.status = "running" /\ row.done = old.done
      BY <1>s, <1>r, <3>1 DEF Run
    <3>4. old.done = {}
      BY <1>5, <2>1, <2>3 DEF GoodRow
    <3>5. GoodRow(row) /\ GoodStage("searching", row.stage)
      BY <3>3, <3>4 DEF GoodRow, GoodStage
    <3> QED  BY <2>1, <3>2, <3>3, <3>5, ProgressMoves DEF Goes
  <2> QED  BY <2>2, <2>3
<1>10. ASSUME NEW w \in Workers, NEW found \in SUBSET Candidates, SaveSearch(w, found)
       PROVE  ProgressInv'
  <2>1. PICK old \in Run : old = run[RunOf(w)] /\ RunOf(w) \in Runs /\ worker[w].at = "searching"
    BY <1>10, <1>5 DEF SaveSearch, At
  <2>2. CASE old.status # "running"
    BY <1>10, <2>1, <2>2, ProgressWaits DEF SaveSearch, Goes, GoodStage
  <2>3. CASE old.status = "running"
    <3>1. PICK row : row = [old EXCEPT !.raw = found, !.stage = 2]
      OBVIOUS
    <3>2. run' = [run EXCEPT ![RunOf(w)] = row] /\ Goes(w, "deduplication")
      BY <1>10, <1>t, <2>1, <2>3, <3>1 DEF SaveSearch
    <3>3. row \in Run /\ row.stage = 2 /\ row.status = "running" /\ row.done = old.done
      BY <1>s, <2>3, <3>1 DEF Run
    <3>4. old.done = {}
      BY <1>5, <2>1 DEF GoodRow, GoodStage
    <3>5. GoodRow(row) /\ GoodStage("deduplication", row.stage)
      BY <3>3, <3>4 DEF GoodRow, GoodStage
    <3> QED  BY <2>1, <3>2, <3>3, <3>5, ProgressMoves DEF Goes
  <2> QED  BY <2>2, <2>3
<1>11. ASSUME NEW w \in Workers, Deduplicate(w)
       PROVE  ProgressInv'
  <2>1. PICK row \in Run :
          /\ run' = [run EXCEPT ![RunOf(w)] = row]
          /\ row.stage = Contacts /\ row.status = "running"
          /\ {p[1] : p \in row.done} = row.raw
    BY <1>11, Deduplicated
  <2>2. worker[w].at # "idle" /\ Goes(w, "contacts")
    BY <1>11 DEF Deduplicate, At
  <2>3. GoodRow(row) /\ GoodStage("contacts", row.stage)
    BY <2>1 DEF GoodRow, GoodStage
  <2> QED  BY <2>1, <2>2, <2>3, ProgressMoves DEF Goes
<1>12. ASSUME NEW w \in Workers, FindContacts(w) \/ MatchSuppliers(w)
       PROVE  ProgressInv'
  <2>1. PICK old \in Run : /\ old = run[RunOf(w)] /\ RunOf(w) \in Runs
                           /\ worker[w].at \in {"in_contacts", "in_matching"}
                           /\ old.status = "running"
    BY <1>12, <1>5 DEF FindContacts, MatchSuppliers, At
  <2>2. PICK stage \in 4..5, at \in {"matching", "completion"} :
          /\ run' = [run EXCEPT ![RunOf(w)].stage = stage] /\ Goes(w, at)
          /\ at = "completion" => stage = 5
    BY <1>12 DEF FindContacts, MatchSuppliers
  <2>3. PICK row : row = [old EXCEPT !.stage = stage]
    OBVIOUS
  <2>4. row \in Run /\ row.stage = stage /\ row.status = "running"
        /\ row.done = old.done /\ row.raw = old.raw
    BY <1>s, <2>1, <2>3 DEF Run
  <2>5. run' = [run EXCEPT ![RunOf(w)] = row]
    BY <1>t, <2>1, <2>2, <2>3
  <2>6. GoodRow(old) /\ old.stage >= 3 /\ old.stage \in 0..6
    BY <1>5, <2>1 DEF GoodStage
  <2>7. GoodRow(row) /\ GoodStage(at, row.stage)
    BY <2>2, <2>4, <2>6 DEF GoodRow, GoodStage
  <2> QED  BY <2>1, <2>2, <2>4, <2>5, <2>7, ProgressMoves DEF Goes
<1>13. ASSUME NEW w \in Workers, Complete(w) \/ Fail(w)
       PROVE  ProgressInv'
  <2>1. PICK old \in Run : /\ old = run[RunOf(w)] /\ RunOf(w) \in Runs
                           /\ worker[w].at # "idle"
    BY <1>13, <1>5 DEF Complete, Fail, At
  <2>2. PICK row \in {[old EXCEPT !.status = "completed", !.stage = 6],
                      [old EXCEPT !.status = IF @ = "completed" THEN @ ELSE "failed"]} :
          /\ run' = [run EXCEPT ![RunOf(w)] = row]
          /\ row.status = "completed" /\ row.stage # 6 => old.status = "completed"
          /\ row.stage # old.stage => worker[w].at = "in_completion"
    <3>1. CASE Complete(w)
      <4>1. PICK row : row = [old EXCEPT !.status = "completed", !.stage = 6]
        OBVIOUS
      <4>2. run' = [run EXCEPT ![RunOf(w)] = row] /\ worker[w].at = "in_completion"
        BY <1>t, <2>1, <3>1, <4>1 DEF Complete, At
      <4> QED  BY <4>1, <4>2 DEF Run
    <3>2. CASE Fail(w)
      <4>1. PICK row : row = [old EXCEPT !.status = IF @ = "completed" THEN @ ELSE "failed"]
        OBVIOUS
      <4>2. run' = [run EXCEPT ![RunOf(w)] = row]
        BY <1>t, <2>1, <3>2, <4>1 DEF Fail
      <4> QED  BY <4>1, <4>2 DEF Run
    <3> QED  BY <1>13, <3>1, <3>2
  <2>3. row \in Run /\ row.done = old.done /\ row.raw = old.raw /\ row.stage \in {6, old.stage}
    <3>1. row = [old EXCEPT !.status = "completed", !.stage = 6]
            => row \in Run /\ row.done = old.done /\ row.raw = old.raw /\ row.stage = 6
      BY <1>s, <1>r DEF Run
    <3>2. row = [old EXCEPT !.status = IF @ = "completed" THEN @ ELSE "failed"]
            => row \in Run /\ row.done = old.done /\ row.raw = old.raw /\ row.stage = old.stage
      BY DEF Run, RunStatus
    <3> QED  BY <3>1, <3>2
  <2>4. GoodRow(old) /\ old.stage \in 0..6
        /\ (worker[w].at = "in_completion" => old.stage >= 5)
    BY <1>5, <2>1 DEF GoodStage
  <2>5. GoodRow(row)
    BY <2>2, <2>3, <2>4 DEF GoodRow
  <2>6. \E at \in {"returned", "retrying"} : Goes(w, at)
    BY <1>13 DEF Complete, Fail
  <2> QED  BY <2>1, <2>2, <2>3, <2>5, <2>6, ProgressMoves DEF Goes, GoodStage
<1>14. ASSUME NEW q \in Requests,
              Publish(q) \/ PublishRaises(q) \/ \E refresh \in BOOLEAN : RequestReads(q, refresh)
       PROVE  ProgressInv'
  BY <1>1, <1>14 DEF Publish, PublishRaises, RequestReads
<1>15. ASSUME NEW r \in Reviewers, ReviewStep(r)
       PROVE  ProgressInv'
  <2>1. UNCHANGED Discovery
    BY <1>15 DEF ReviewStep, ItemReads, MergeReads, ManualReads, ReviewRefused, Decide, Edit,
       Confirm, Merge, CreateManual
  <2> QED  BY <1>1, <2>1 DEF Discovery
<1> QED
  BY <1>1, <1>2, <1>4, <1>6, <1>7, <1>8, <1>9, <1>10, <1>11, <1>12, <1>13, <1>14, <1>15
  DEF Next, RequestStep, WorkerStep, Skips, Commits, vars

\* The supplier of a run was not offered for review yet.
Early == {"candidate", "contacts_found"}

\* A run that is about to complete has read the item of s too late to offer it.
Overlooks(m, s) ==
  \E w \in Workers : At(w, "in_completion") /\ RunOf(w) = m /\ worker[w].seen[s] \notin Early

\* Every supplier of a run has an item, and one that waits for its review has a
\* run that will still offer it.
OfferedInv ==
  /\ \A n \in Exist : \A s \in RowsOf(n) : item[s] # "none"
  /\ \A s \in Rows : item[s] \in Early =>
       \E m \in Exist : run[m].status # "completed" /\ s \in RowsOf(m) /\ ~Overlooks(m, s)

\* A run that is about to complete was read by the worker that will commit it.
LEMMA OnlyItsWorkerOverlooks ==
  ASSUME IInv, HInv, NEW w \in Workers, worker[w].at # "idle", worker[w].at # "in_completion",
         NEW s
  PROVE  ~Overlooks(RunOf(w), s)
<1> SUFFICES ASSUME NEW v \in Workers, At(v, "in_completion"), RunOf(v) = RunOf(w)
             PROVE  FALSE
  BY DEF Overlooks
<1> QED  BY Sole DEF At

\* A step that sets no item back, completes no run and lets none read.
LEMMA OfferedStays ==
  ASSUME OfferedInv,
         \A s \in Rows : item'[s] = item[s] \/ item'[s] \notin Early \cup {"none"},
         \A n \in Exist : /\ n \in Exist' /\ run'[n].done = run[n].done
                          /\ run'[n].status = "completed" => run[n].status = "completed",
         \A n \in Exist' : n \in Exist \/ run'[n].done = {},
         \A n \in Exist : RowsOf(n) \subseteq Rows,
         \A w \in Workers : worker'[w].at = "in_completion" => worker'[w] = worker[w]
  PROVE  OfferedInv'
<1>1. \A n \in Exist : RowsOf(n)' = RowsOf(n)
  BY DEF RowsOf
<1>2. \A n \in Exist' : n \in Exist \/ RowsOf(n)' = {}
  BY DEF RowsOf
<1>3. \A n \in Exist' : \A s \in RowsOf(n)' : item'[s] # "none"
  BY <1>1, <1>2 DEF OfferedInv
<1>4. \A m, s : Overlooks(m, s)' => Overlooks(m, s)
  BY DEF Overlooks, At, RunOf
<1>5. ASSUME NEW s \in Rows, item'[s] \in Early
      PROVE  \E m \in Exist' : /\ run'[m].status # "completed" /\ s \in RowsOf(m)'
                               /\ ~Overlooks(m, s)'
  <2>1. item[s] \in Early
    BY <1>5
  <2>2. PICK m \in Exist : run[m].status # "completed" /\ s \in RowsOf(m) /\ ~Overlooks(m, s)
    BY <2>1 DEF OfferedInv
  <2> QED  BY <1>1, <1>4, <2>2
<1> QED  BY <1>3, <1>5 DEF OfferedInv

\* A worker commits: the items it sets back are suppliers of its own run, which
\* it has not read for its completion.
LEMMA OfferedByItsWorker ==
  ASSUME IInv, HInv, OfferedInv, NEW w \in Workers,
         worker[w].at # "idle", worker[w].at # "in_completion",
         NEW at \in Stops, Goes(w, at),
         NEW row \in Run, run' = [run EXCEPT ![RunOf(w)] = row], row.status = "running",
         row.done = run[RunOf(w)].done \/ run[RunOf(w)].done = {},
         \A p \in row.done : item'[p[2]] # "none",
         \A s \in Rows : \/ item'[s] = item[s]
                         \/ item'[s] \in Early /\ s \in {p[2] : p \in row.done}
  PROVE  OfferedInv'
<1>t. /\ run \in [Runs -> Run \cup {Absent}] /\ worker \in [Workers -> WorkerState]
      /\ RunOf(w) \in Runs /\ run[RunOf(w)] # Absent
      /\ row # Absent
  BY Busy, NamesAssumption DEF IInv, TypeOK
<1>n. PICK own \in Exist : own = RunOf(w)
  BY <1>t DEF Exist
<1>1. /\ run'[own] = row
      /\ \A n \in Runs : n # own => run'[n] = run[n]
      /\ Exist' = Exist
  BY <1>t, <1>n DEF Exist
<1>2. /\ worker'[w].at = at /\ worker'[w].message = worker[w].message
      /\ \A v \in Workers : v # w => worker'[v] = worker[v]
  BY <1>t DEF Goes, WorkerState
<1>3. /\ RowsOf(own)' = {p[2] : p \in row.done}
      /\ \A n \in Exist : n # own => RowsOf(n)' = RowsOf(n)
  <2>1. \A n \in Runs : RowsOf(n)' = {p[2] : p \in run'[n].done}
    BY DEF RowsOf
  <2>2. \A n \in Exist : n # own => RowsOf(n)' = RowsOf(n)
    BY <1>1, <2>1 DEF RowsOf, Exist
  <2>3. RowsOf(own)' = {p[2] : p \in row.done}
    BY <1>1, <2>1 DEF Exist
  <2> QED  BY <2>2, <2>3
<1>r. RowsOf(own) \subseteq {p[2] : p \in row.done}
  BY <1>n DEF RowsOf
<1>4. \A m, s : Overlooks(m, s)' => Overlooks(m, s)
  <2> SUFFICES ASSUME NEW m, NEW s, NEW v \in Workers, worker'[v].at = "in_completion",
                      worker'[v].message.run = m, worker'[v].seen[s] \notin Early
               PROVE  Overlooks(m, s)
    BY DEF Overlooks, At, RunOf
  <2>1. v # w
    BY <1>2 DEF Stops
  <2> QED  BY <1>2, <2>1 DEF Overlooks, At, RunOf
<1>5. ASSUME NEW n \in Exist', NEW s \in RowsOf(n)'
      PROVE  item'[s] # "none"
  <2>1. CASE n = own
    BY <1>3, <2>1
  <2>2. CASE n # own
    <3>1. item[s] # "none" /\ s \in Rows
      <4>1. run[n] \in Run
        BY <1>t, <1>1 DEF Exist
      <4> QED  BY <1>1, <1>3, <2>2, <4>1 DEF OfferedInv, RowsOf, Run
    <3> QED  BY <3>1 DEF Early
  <2> QED  BY <2>1, <2>2
<1>6. ASSUME NEW s \in Rows, item'[s] \in Early
      PROVE  \E m \in Exist' : /\ run'[m].status # "completed" /\ s \in RowsOf(m)'
                               /\ ~Overlooks(m, s)'
  <2>1. CASE s \in {p[2] : p \in row.done}
    <3>1. ~Overlooks(own, s)'
      BY <1>4, <1>n, OnlyItsWorkerOverlooks
    <3> QED  BY <1>1, <1>3, <2>1, <3>1
  <2>2. CASE s \notin {p[2] : p \in row.done}
    <3>1. item[s] \in Early
      BY <1>6, <2>2
    <3>2. PICK m \in Exist : run[m].status # "completed" /\ s \in RowsOf(m) /\ ~Overlooks(m, s)
      BY <3>1 DEF OfferedInv
    <3>3. m # own
      BY <1>n, <1>r, <2>2, <3>2
    <3>4. run'[m] = run[m]
      BY <1>1, <3>3 DEF Exist
    <3> QED  BY <1>1, <1>3, <1>4, <3>2, <3>3, <3>4
  <2> QED  BY <2>1, <2>2
<1> QED  BY <1>5, <1>6 DEF OfferedInv

\* A worker that reads for the completion of its run overlooks nothing yet.
LEMMA OfferedAfterReading ==
  ASSUME IInv, HInv, OfferedInv, NEW w \in Workers, Begins(w)
  PROVE  OfferedInv'
<1>t. run \in [Runs -> Run \cup {Absent}] /\ worker \in [Workers -> WorkerState]
  BY DEF IInv, TypeOK
<1>r. \A n \in Exist : RowsOf(n) \subseteq Rows
  BY <1>t DEF Exist, RowsOf, Run
<1>1. PICK seen \in {Known, item, match}, at \in Opened :
        /\ Opens(w, at, seen) /\ run' = run /\ item' = item
        /\ at = "in_completion" => seen = item
  BY DEF Begins, OpenDeduplication, OpenContacts, OpenMatching, OpenCompletion, Open, Opened,
     Suppliers
<1>2. /\ worker'[w].at = at /\ worker'[w].seen = seen
      /\ \A v \in Workers : v # w => worker'[v] = worker[v]
  BY <1>1, <1>t DEF Opens, WorkerState
<1>3. Exist' = Exist /\ \A n \in Exist : RowsOf(n)' = RowsOf(n)
  BY <1>1 DEF Exist, RowsOf
<1>4. \A m, s : item[s] \in Early /\ Overlooks(m, s)' => Overlooks(m, s)
  <2> SUFFICES ASSUME NEW m, NEW s, item[s] \in Early,
                      NEW v \in Workers, worker'[v].at = "in_completion",
                      worker'[v].message.run = m, worker'[v].seen[s] \notin Early
               PROVE  Overlooks(m, s)
    BY DEF Overlooks, At, RunOf
  <2>1. v # w
    BY <1>1, <1>2
  <2> QED  BY <1>2, <2>1 DEF Overlooks, At, RunOf
<1>5. \A n \in Exist' : \A s \in RowsOf(n)' : item'[s] # "none"
  BY <1>1, <1>3 DEF OfferedInv
<1>6. ASSUME NEW s \in Rows, item'[s] \in Early
      PROVE  \E m \in Exist' : /\ run'[m].status # "completed" /\ s \in RowsOf(m)'
                               /\ ~Overlooks(m, s)'
  <2>1. PICK m \in Exist : run[m].status # "completed" /\ s \in RowsOf(m) /\ ~Overlooks(m, s)
    BY <1>1, <1>6 DEF OfferedInv
  <2> QED  BY <1>1, <1>3, <1>4, <1>6, <2>1
<1> QED  BY <1>5, <1>6 DEF OfferedInv

\* A run that completes offers what it has read, and what it has overlooked
\* another run will offer.
LEMMA OfferedByCompletion ==
  ASSUME IInv, HInv, OfferedInv, NEW w \in Workers, Complete(w)
  PROVE  OfferedInv'
<1>t. /\ run \in [Runs -> Run \cup {Absent}] /\ worker \in [Workers -> WorkerState]
      /\ worker[w].at = "in_completion"
      /\ RunOf(w) \in Runs /\ run[RunOf(w)] \in Run /\ run[RunOf(w)] # Absent
  BY Busy, NamesAssumption DEF IInv, TypeOK, Complete, At
<1>r. \A n \in Exist : RowsOf(n) \subseteq Rows
  BY <1>t DEF Exist, RowsOf, Run
<1>n. PICK own \in Exist : own = RunOf(w)
  BY <1>t DEF Exist
<1>1. PICK row : row = [run[own] EXCEPT !.status = "completed", !.stage = Completed]
  OBVIOUS
<1>2. row \in Run /\ row.done = run[own].done
  BY <1>n, <1>t, <1>1, StagesAreTyped DEF Run
<1>3. run' = [run EXCEPT ![own] = row]
  BY <1>n, <1>t, <1>1 DEF Complete
<1>4. /\ Exist' = Exist /\ run'[own] = row
      /\ \A n \in Exist : n # own => run'[n] = run[n]
  BY <1>2, <1>3, <1>t, <1>n, NamesAssumption DEF Exist
<1>5. \A n \in Exist : RowsOf(n)' = RowsOf(n)
  <2>1. \A n \in Exist : run'[n].done = run[n].done
    BY <1>2, <1>4
  <2> QED  BY <2>1 DEF RowsOf
<1>6. /\ worker'[w].at = "returned"
      /\ \A v \in Workers : v # w => worker'[v] = worker[v]
  BY <1>t DEF Complete, Goes, WorkerState
<1>7. \A m, s : Overlooks(m, s)' => Overlooks(m, s)
  BY <1>6 DEF Overlooks, At, RunOf
<1>8. \A s \in Rows : IF s \in RowsOf(own) /\ worker[w].seen[s] \in Early
                        THEN item'[s] = "pending_review" ELSE item'[s] = item[s]
  BY <1>n DEF Complete, Early
<1>9. \A n \in Exist' : \A s \in RowsOf(n)' : item'[s] # "none"
  BY <1>4, <1>5, <1>8, <1>r DEF OfferedInv
<1>10. ASSUME NEW s \in Rows, item'[s] \in Early
       PROVE  \E m \in Exist' : /\ run'[m].status # "completed" /\ s \in RowsOf(m)'
                                /\ ~Overlooks(m, s)'
  <2>1. item[s] \in Early /\ ~(s \in RowsOf(own) /\ worker[w].seen[s] \in Early)
    BY <1>8, <1>10 DEF Early
  <2>2. PICK m \in Exist : run[m].status # "completed" /\ s \in RowsOf(m) /\ ~Overlooks(m, s)
    BY <2>1 DEF OfferedInv
  <2>3. m # own
    BY <1>n, <1>t, <2>1, <2>2 DEF Overlooks, At
  <2> QED  BY <1>4, <1>5, <1>7, <2>2, <2>3
<1> QED  BY <1>9, <1>10 DEF OfferedInv

\* The deduplication and the contacts write items of their own run.
LEMMA OfferedByStages ==
  ASSUME IInv, HInv, ProgressInv, OfferedInv, NEW w \in Workers,
         Deduplicate(w) \/ FindContacts(w)
  PROVE  OfferedInv'
<1>t. /\ run \in [Runs -> Run \cup {Absent}] /\ item \in [Rows -> ItemStatus]
      /\ worker[w].at \in {"in_deduplication", "in_contacts"}
      /\ worker[w].at # "idle" /\ worker[w].at # "in_completion"
  BY DEF IInv, TypeOK, Deduplicate, FindContacts, At
<1>n. PICK own \in Exist : own = RunOf(w) /\ run[own] \in Run /\ own \in Runs
  BY <1>t, Busy, NamesAssumption DEF Exist
<1>r. RowsOf(own) \subseteq Rows
  BY <1>n DEF RowsOf, Run
<1>1. CASE Deduplicate(w)
  <2>1. PICK row \in Run :
          /\ run' = [run EXCEPT ![own] = row] /\ row.status = "running"
          /\ \A s \in Rows : \/ item'[s] = item[s]
                             \/ item'[s] = "candidate" /\ s \in {p[2] : p \in row.done}
          /\ \A p \in row.done : item'[p[2]] # "none"
    BY <1>1, <1>n, Deduplicated
  <2>2. run[own].done = {}
    <3>1. worker[w].at = "in_deduplication"
      BY <1>1 DEF Deduplicate, At
    <3> QED  BY <1>n, <3>1 DEF ProgressInv, GoodRow, GoodStage
  <2>3. Goes(w, "contacts") /\ "contacts" \in Stops
    BY <1>1 DEF Deduplicate, Stops
  <2> QED  BY <1>n, <1>t, <2>1, <2>2, <2>3, OfferedByItsWorker DEF Early
<1>2. CASE FindContacts(w)
  <2>1. PICK row : row = [run[own] EXCEPT !.stage = Matching]
    OBVIOUS
  <2>2. row \in Run /\ row.done = run[own].done /\ row.status = "running"
    <3>1. run[own].status = "running"
      BY <1>2, <1>n DEF FindContacts
    <3> QED  BY <1>n, <2>1, <3>1, StagesAreTyped DEF Run
  <2>3. run' = [run EXCEPT ![own] = row] /\ Goes(w, "matching") /\ "matching" \in Stops
    BY <1>2, <1>n, <1>t, <2>1 DEF FindContacts, Stops
  <2>4. \A s \in Rows : \/ item'[s] = item[s]
                        \/ item'[s] = "contacts_found" /\ s \in RowsOf(own)
    BY <1>2, <1>n DEF FindContacts
  <2>5. \A p \in row.done : item'[p[2]] # "none"
    <3>1. \A p \in row.done : p[2] \in RowsOf(own)
      BY <2>2 DEF RowsOf
    <3> QED  BY <1>r, <2>4, <3>1 DEF OfferedInv
  <2>6. RowsOf(own) = {p[2] : p \in row.done}
    BY <2>2 DEF RowsOf
  <2> QED  BY <1>n, <1>t, <2>2, <2>3, <2>4, <2>5, <2>6, OfferedByItsWorker DEF Early
<1> QED  BY <1>1, <1>2

\* What the reviewers write of an item is beyond "contacts_found".
LEMMA ReviewersGoOn ==
  ASSUME IInv, NEW r \in Reviewers, ReviewStep(r)
  PROVE  /\ UNCHANGED <<run, worker>>
         /\ \A s \in Rows : item'[s] = item[s] \/ item'[s] \notin Early \cup {"none"}
<1>t. item \in [Rows -> ItemStatus]
  BY DEF IInv, TypeOK
<1>1. UNCHANGED Discovery
  BY DEF ReviewStep, ItemReads, MergeReads, ManualReads, ReviewRefused, Decide, Edit, Confirm,
     Merge, CreateManual
<1>2. \/ item' = item
      \/ \E s \in Rows, status \in {"approved", "rejected", "merged"} :
           item' = [item EXCEPT ![s] = status]
      \/ \E s \in Rows : item' = [item EXCEPT ![s] = IF @ = "none" THEN "pending_review" ELSE @]
  <2>1. CASE \E status \in ItemStatus : Decide(r, status)
    BY <2>1, Reviewed DEF Decide, Reviewing
  <2>2. CASE Merge(r)
    BY <2>2, Reviewed DEF Merge, Reviewing
  <2>3. CASE \E c \in Candidates : CreateManual(r, c)
    <3>1. PICK c \in Candidates : CreateManual(r, c)
      BY <2>3
    <3>2. PICK f \in Assignments(review[r].seen, {c}) :
            item' = [item EXCEPT ![f[c]] = IF @ = "none" THEN "pending_review" ELSE @]
      BY <3>1 DEF CreateManual
    <3>3. f[c] \in Rows
      BY <3>2 DEF Assignments
    <3> QED  BY <3>2, <3>3
  <2> QED
    BY <2>1, <2>2, <2>3 DEF ReviewStep, ItemReads, MergeReads, ManualReads, ReviewRefused, Edit,
       Confirm
<1>3. \A s \in Rows : item'[s] = item[s] \/ item'[s] \notin Early \cup {"none"}
  BY <1>t, <1>2 DEF Early
<1> QED  BY <1>1, <1>3 DEF Discovery

\* A worker goes on without opening a transaction, and writes no supplier.
LEMMA OfferedMeanwhile ==
  ASSUME IInv, OfferedInv, NEW w \in Workers, worker[w].at # "idle",
         NEW at \in Stops, Goes(w, at), item' = item,
         NEW row \in Run, run' = run \/ run' = [run EXCEPT ![RunOf(w)] = row],
         row.done = run[RunOf(w)].done,
         row.status = "completed" => run[RunOf(w)].status = "completed"
  PROVE  OfferedInv'
<1>t. /\ run \in [Runs -> Run \cup {Absent}] /\ worker \in [Workers -> WorkerState]
      /\ RunOf(w) \in Runs /\ run[RunOf(w)] \in Run
      /\ \A x \in Run : x # Absent
  BY Busy, NamesAssumption DEF IInv, TypeOK
<1>r. \A n \in Exist : RowsOf(n) \subseteq Rows
  BY <1>t DEF Exist, RowsOf, Run
<1>1. /\ worker'[w].at = at
      /\ \A v \in Workers : v # w => worker'[v] = worker[v]
  BY <1>t DEF Goes, WorkerState
<1>2. \A v \in Workers : worker'[v].at = "in_completion" => worker'[v] = worker[v]
  BY <1>1 DEF Stops
<1>3. \A n \in Runs : run'[n] = run[n] \/ (n = RunOf(w) /\ run'[n] = row)
  <2>1. CASE run' = run
    BY <2>1
  <2>2. CASE run' = [run EXCEPT ![RunOf(w)] = row]
    <3> SUFFICES ASSUME NEW n \in Runs
                 PROVE  run'[n] = run[n] \/ (n = RunOf(w) /\ run'[n] = row)
      OBVIOUS
    <3>1. CASE n = RunOf(w)
      BY <1>t, <2>2, <3>1
    <3>2. CASE n # RunOf(w)
      BY <1>t, <2>2, <3>2
    <3> QED  BY <3>1, <3>2
  <2> QED  BY <2>1, <2>2
<1>4. \A n \in Exist : /\ n \in Exist' /\ run'[n].done = run[n].done
                       /\ run'[n].status = "completed" => run[n].status = "completed"
  BY <1>t, <1>3 DEF Exist
<1>5. \A n \in Exist' : n \in Exist
  BY <1>t, <1>3 DEF Exist
<1> QED  BY <1>r, <1>2, <1>4, <1>5, OfferedStays

LEMMA OfferedPreserved ==
  "overlap" \notin Faults /\ IInv /\ HInv /\ ProgressInv /\ OfferedInv /\ [Next]_vars => OfferedInv'
<1> SUFFICES ASSUME "overlap" \notin Faults, IInv, HInv, ProgressInv, OfferedInv, [Next]_vars
             PROVE  OfferedInv'
  OBVIOUS
<1>t. /\ run \in [Runs -> Run \cup {Absent}] /\ worker \in [Workers -> WorkerState]
      /\ request \in [Requests -> RequestState]
  BY DEF IInv, TypeOK
<1>r. \A n \in Exist : RowsOf(n) \subseteq Rows
  BY <1>t DEF Exist, RowsOf, Run
<1>b. ASSUME NEW w \in Workers, worker[w].at # "idle"
      PROVE  run[RunOf(w)] \in Run /\ RunOf(w) \in Runs
  BY <1>b, Busy
<1>1. ASSUME run' = run,
             \A s \in Rows : item'[s] = item[s] \/ item'[s] \notin Early \cup {"none"},
             \A w \in Workers : worker'[w].at = "in_completion" => worker'[w] = worker[w]
      PROVE  OfferedInv'
  <2>1. \A n \in Exist : /\ n \in Exist' /\ run'[n].done = run[n].done
                         /\ run'[n].status = "completed" => run[n].status = "completed"
    BY <1>1 DEF Exist
  <2>2. \A n \in Exist' : n \in Exist
    BY <1>1 DEF Exist
  <2> QED  BY <1>1, <1>r, <2>1, <2>2, OfferedStays
<1>2. CASE UNCHANGED vars
  BY <1>1, <1>2 DEF vars
<1>3. ASSUME NEW r \in Reviewers, ReviewStep(r)
      PROVE  OfferedInv'
  BY <1>1, <1>3, ReviewersGoOn
<1>4. ASSUME NEW q \in Requests,
             Publish(q) \/ PublishRaises(q) \/ \E refresh \in BOOLEAN : RequestReads(q, refresh)
      PROVE  OfferedInv'
  BY <1>1, <1>4 DEF Publish, PublishRaises, RequestReads, Suppliers
<1>5. ASSUME NEW q \in Requests, RequestCreates(q)
      PROVE  OfferedInv'
  <2>1. item' = item /\ worker' = worker
    BY <1>5 DEF RequestCreates, Suppliers
  <2>2. CASE run' = run
    BY <1>1, <2>1, <2>2
  <2>3. CASE run' # run
    <3>1. PICK n \in Runs : run[n] = Absent /\ run' = [run EXCEPT ![n] = NewRun]
      BY <1>5, <1>t, <2>3 DEF RequestCreates, RequestState
    <3>2. /\ run'[n] = NewRun /\ n \notin Exist
          /\ \A m \in Runs : m # n => run'[m] = run[m]
      BY <1>t, <3>1 DEF Exist
    <3>3. \A m \in Exist : /\ m \in Exist' /\ run'[m].done = run[m].done
                           /\ run'[m].status = "completed" => run[m].status = "completed"
      BY <3>2 DEF Exist
    <3>4. NewRun.done = {}
      BY DEF NewRun
    <3>5. \A m \in Exist' : m \in Exist \/ run'[m].done = {}
      BY <3>2, <3>4 DEF Exist
    <3> QED  BY <1>r, <2>1, <3>3, <3>5, OfferedStays
  <2> QED  BY <2>2, <2>3
<1>6. ASSUME NEW w \in Workers,
             \/ \E m \in broker : Receive(w, m)
             \/ Retry(w) \/ Acknowledge(w) \/ WorkerDies(w)
      PROVE  OfferedInv'
  <2>1. run' = run /\ item' = item
    BY <1>6 DEF Receive, Retry, Acknowledge, WorkerDies, Suppliers
  <2>2. \E x : x.at # "in_completion" /\ worker' = [worker EXCEPT ![w] = x]
    BY <1>6 DEF Receive, Retry, Acknowledge, WorkerDies, Idle
  <2>3. \A v \in Workers : worker'[v].at = "in_completion" => worker'[v] = worker[v]
    BY <1>t, <2>2
  <2> QED  BY <1>1, <2>1, <2>3
<1>7. ASSUME NEW w \in Workers,
             \/ SearchFails(w) \/ NotRunning(w) \/ DatabaseFails(w) \/ MatchConflicts(w)
             \/ Skips(w)
      PROVE  OfferedInv'
  <2>1. /\ worker[w].at # "idle" /\ run' = run /\ item' = item
        /\ \E at \in Stops : Goes(w, at)
    BY <1>7 DEF SearchFails, NotRunning, DatabaseFails, MatchConflicts, Skips, SkipDeduplication,
       SkipContacts, SkipMatching, SkipCompletion, Skip, At, Opened, Stops, Suppliers
  <2> QED  BY <1>b, <2>1, OfferedMeanwhile
<1>8. ASSUME NEW w \in Workers,
             \/ StartSearch(w) \/ \E found \in SUBSET Candidates : SaveSearch(w, found)
             \/ Fail(w) \/ MatchSuppliers(w)
      PROVE  OfferedInv'
  <2>1. PICK old \in Run : old = run[RunOf(w)] /\ RunOf(w) \in Runs
                           /\ worker[w].at # "idle" /\ item' = item
    BY <1>8, <1>b DEF StartSearch, SaveSearch, Fail, MatchSuppliers, At, Suppliers
  <2>2. \E at \in Stops : Goes(w, at)
    BY <1>8 DEF StartSearch, SaveSearch, Fail, MatchSuppliers, Stops
  <2>3. \E row \in Run :
          /\ run' = run \/ run' = [run EXCEPT ![RunOf(w)] = row]
          /\ row.done = old.done
          /\ row.status = "completed" => old.status = "completed"
    <3>1. CASE run' = run
      BY <2>1, <3>1
    <3>2. CASE StartSearch(w) /\ run' # run
      <4>1. PICK row : row = [old EXCEPT !.status = "running", !.stage = Search]
        OBVIOUS
      <4>2. run' = [run EXCEPT ![RunOf(w)] = row]
        BY <1>t, <2>1, <3>2, <4>1 DEF StartSearch, Started
      <4>3. row \in Run /\ row.done = old.done /\ row.status = "running"
        BY <4>1, StagesAreTyped DEF Run
      <4> QED  BY <4>2, <4>3
    <3>3. CASE (\E found \in SUBSET Candidates : SaveSearch(w, found)) /\ run' # run
      <4>1. PICK found \in SUBSET Candidates : SaveSearch(w, found)
        BY <3>3
      <4>2. PICK row : row = [old EXCEPT !.raw = found, !.stage = Deduplication]
        OBVIOUS
      <4>3. run' = [run EXCEPT ![RunOf(w)] = row]
        BY <1>t, <2>1, <3>3, <4>1, <4>2 DEF SaveSearch
      <4>4. row \in Run /\ row.done = old.done /\ row.status = old.status
        BY <4>2, StagesAreTyped DEF Run
      <4> QED  BY <4>3, <4>4
    <3>4. CASE Fail(w)
      <4>1. PICK row : row = [old EXCEPT !.status = IF @ = "completed" THEN @ ELSE "failed"]
        OBVIOUS
      <4>2. run' = [run EXCEPT ![RunOf(w)] = row]
        BY <1>t, <2>1, <3>4, <4>1 DEF Fail
      <4>3. row \in Run /\ row.done = old.done
            /\ (row.status = "completed" => old.status = "completed")
        BY <4>1 DEF Run, RunStatus
      <4> QED  BY <4>2, <4>3
    <3>5. CASE MatchSuppliers(w)
      <4>1. PICK row : row = [old EXCEPT !.stage = Review]
        OBVIOUS
      <4>2. run' = [run EXCEPT ![RunOf(w)] = row]
        BY <1>t, <2>1, <3>5, <4>1 DEF MatchSuppliers
      <4>3. row \in Run /\ row.done = old.done /\ row.status = old.status
        BY <4>1, StagesAreTyped DEF Run
      <4> QED  BY <4>2, <4>3
    <3> QED  BY <1>8, <3>1, <3>2, <3>3, <3>4, <3>5
  <2> QED  BY <2>1, <2>2, <2>3, OfferedMeanwhile
<1> QED
  BY <1>2, <1>3, <1>4, <1>5, <1>6, <1>7, <1>8, OfferedAfterReading, OfferedByCompletion,
     OfferedByStages
  DEF Next, RequestStep, WorkerStep, Commits

LEMMA Processing == IInv /\ ProgressInv /\ OfferedInv => CompletedIsProcessed
<1> SUFFICES ASSUME IInv, ProgressInv, OfferedInv, NEW n \in Exist, run[n].status = "completed"
             PROVE  /\ {p[1] : p \in run[n].done} = run[n].raw
                    /\ \A s \in RowsOf(n) :
                         \/ item[s] \notin {"none", "candidate", "contacts_found"}
                         \/ \E m \in Exist : run[m].status # "completed" /\ s \in RowsOf(m)
  BY DEF CompletedIsProcessed
<1>1. run[n].stage = Completed /\ GoodRow(run[n])
  BY DEF ProgressInv, GoodRow
<1>2. {p[1] : p \in run[n].done} = run[n].raw
  BY <1>1 DEF GoodRow, Completed, Deduplication
<1>3. RowsOf(n) \subseteq Rows
  BY DEF IInv, TypeOK, Exist, RowsOf, Run
<1> QED  BY <1>2, <1>3 DEF OfferedInv, Early

\* Through deaths, retries and redeliveries, and whatever other runs and the
\* reviewers do at the same time: a completed run has a supplier for every
\* candidate and has offered each for review, or a run that has not completed
\* will, as long as no message is delivered again while a worker still holds it.
THEOREM Completion == "overlap" \notin Faults => (Spec => []CompletedIsProcessed)
<1> SUFFICES ASSUME "overlap" \notin Faults PROVE Spec => []CompletedIsProcessed
  OBVIOUS
<1>1. Init => HInv /\ ProgressInv /\ OfferedInv
  <2> SUFFICES ASSUME Init PROVE ProgressInv /\ OfferedInv
    BY InitHolding
  <2>1. Exist = {} /\ \A w \in Workers : worker[w] = Idle
    BY DEF Init, Exist
  <2>2. \A s \in Rows : item[s] \notin Early
    BY DEF Init, Early
  <2> QED  BY <2>1, <2>2, IdleIsGood DEF ProgressInv, OfferedInv, GoodStage
<1>2. IInv /\ HInv /\ ProgressInv /\ OfferedInv /\ [Next]_vars
        => HInv' /\ ProgressInv' /\ OfferedInv'
  BY NextHolding, ProgressPreserved, OfferedPreserved
<1> QED  BY <1>1, <1>2, Invariance, Processing, PTL DEF Spec
=============================================================================
