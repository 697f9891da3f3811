------------------------ MODULE QuoteAnalysisProofs ------------------------
(***************************************************************************)
(* Theorems about QuoteAnalysis, for any set of tasks, any routes and any  *)
(* bounds.                                                                 *)
(***************************************************************************)
EXTENDS QuoteAnalysis, SequenceTheorems, TLAPS

-----------------------------------------------------------------------------
(* What the sequence operators of the actions do. *)

\* Replacing one row keeps every other row.
LEMMA RunReplaced ==
  ASSUME runs \in Seq(Run), NEW r \in RunNumbers, NEW e \in Run,
         runs' = [runs EXCEPT ![r] = e]
  PROVE  /\ runs' \in Seq(Run)
         /\ RunNumbers' = RunNumbers
         /\ \A s \in RunNumbers : runs'[s] = IF s = r THEN e ELSE runs[s]
<1>1. [runs EXCEPT ![r] = e] \in Seq(Run) /\ Len([runs EXCEPT ![r] = e]) = Len(runs)
      /\ \A s \in 1..Len(runs) : [runs EXCEPT ![r] = e][s] = IF s = r THEN e ELSE runs[s]
  BY ExceptSeq DEF RunNumbers
<1> QED  BY <1>1 DEF RunNumbers

\* A new run takes the next number.
LEMMA RunAppended ==
  ASSUME runs \in Seq(Run), NEW e \in Run, runs' = Append(runs, e)
  PROVE  /\ runs' \in Seq(Run)
         /\ RunNumbers' = RunNumbers \cup {Len(runs) + 1}
         /\ Len(runs) + 1 \notin RunNumbers
         /\ runs'[Len(runs) + 1] = e
         /\ \A s \in RunNumbers : runs'[s] = runs[s]
<1>1. Len(runs) \in Nat
  BY LenProperties
<1>2. Len(runs') = Len(runs) + 1 /\ runs' \in Seq(Run)
      /\ runs'[Len(runs) + 1] = e /\ \A s \in 1..Len(runs) : runs'[s] = runs[s]
  BY <1>1, SMT
<1> QED  BY <1>1, <1>2, SMT DEF RunNumbers

\* Every row is rewritten in place.
LEMMA RunsRewritten ==
  ASSUME runs \in Seq(Run), NEW f, f \in [RunNumbers -> Run], runs' = f
  PROVE  /\ runs' \in Seq(Run)
         /\ RunNumbers' = RunNumbers
<1>1. Len(runs) \in Nat
  BY LenProperties
<1>2. f \in Seq(Run) /\ Len(f) = Len(runs)
  BY <1>1, SMT DEF RunNumbers
<1> QED  BY <1>2 DEF RunNumbers

\* The same for the documents.
LEMMA DocumentReplaced ==
  ASSUME documents \in Seq(DocumentStatus), documents # <<>>,
         NEW d \in 1..Len(documents), NEW e \in DocumentStatus,
         documents' = [documents EXCEPT ![d] = e]
  PROVE  /\ documents' \in Seq(DocumentStatus)
         /\ documents' # <<>>
         /\ Len(documents') = Len(documents)
<1>1. /\ [documents EXCEPT ![d] = e] \in Seq(DocumentStatus)
      /\ Len([documents EXCEPT ![d] = e]) = Len(documents)
  BY ExceptSeq
<1>2. Len(documents) \in Nat \ {0}
  BY EmptySeq
<1> QED  BY <1>1, <1>2, EmptySeq

\* A run that is being executed exists, so the rows a worker writes exist.
LEMMA OwnedRunExists ==
  ASSUME TypeOK, WorkersOwnRuns, NEW t \in Tasks,
         message[t].place \in {"extracting", "raising"}
  PROVE  /\ message[t].run \in RunNumbers
         /\ runs[message[t].run] \in Run
         /\ runs[message[t].run].task = t
         /\ runs[message[t].run].status = "running"
         /\ runs[message[t].run].document \in 1..Len(documents)
<1>1. message[t].run \in RunNumbers /\ runs[message[t].run].task = t
      /\ runs[message[t].run].status = "running"
  BY DEF WorkersOwnRuns
<1>2. runs[message[t].run] \in Run
  BY <1>1, ElementOfSeq DEF TypeOK, RunNumbers
<1> QED  BY <1>1, <1>2 DEF TypeOK

\* What the transactions that rewrite runs leave in them.
LEMMA PersistedRuns ==
  ASSUME TypeOK, WorkersOwnRuns, NEW t \in Tasks, NEW resolved \in BOOLEAN,
         PersistAnalysis(t, resolved)
  PROVE  /\ runs' \in Seq(Run)
         /\ RunNumbers' = RunNumbers
         /\ message[t].run \in RunNumbers
         /\ runs'[message[t].run].status = "completed"
         /\ runs'[message[t].run].items = "current"
         /\ \A s \in RunNumbers :
              /\ runs'[s].document = runs[s].document
              /\ runs'[s].task = runs[s].task
              /\ runs'[s].approvedSource = runs[s].approvedSource
              /\ s # message[t].run =>
                   /\ runs'[s].status = runs[s].status
                   /\ runs'[s].items # "current"
                   /\ runs'[s].items = "none" <=> runs[s].items = "none"
<1> DEFINE r == message[t].run
           f == [s \in RunNumbers |->
                  IF s = r
                    THEN [runs[s] EXCEPT !.status = "completed", !.items = "current",
                                         !.resolved = resolved]
                    ELSE [runs[s] EXCEPT !.items = IF @ = "current" THEN "superseded" ELSE @]]
<1>1. r \in RunNumbers
  BY OwnedRunExists DEF PersistAnalysis, MoveMessage
<1>2. runs' = f
  BY DEF PersistAnalysis
<1>3. ASSUME NEW s \in RunNumbers
      PROVE  /\ f[s] \in Run
             /\ f[s].document = runs[s].document
             /\ f[s].task = runs[s].task
             /\ f[s].approvedSource = runs[s].approvedSource
             /\ s = r => f[s].status = "completed" /\ f[s].items = "current"
             /\ s # r => /\ f[s].status = runs[s].status
                         /\ f[s].items # "current"
                         /\ f[s].items = "none" <=> runs[s].items = "none"
  <2>1. runs[s] \in Run
    BY ElementOfSeq DEF TypeOK, RunNumbers
  <2>2. CASE s = r
    <3>1. f[s] = [runs[s] EXCEPT !.status = "completed", !.items = "current",
                                 !.resolved = resolved]
      BY <2>2
    <3> QED
      BY <2>1, <2>2, <3>1 DEF Run, RunStatus, ItemStatus
  <2>3. CASE s # r
    <3>1. f[s] = [runs[s] EXCEPT !.items = IF @ = "current" THEN "superseded" ELSE @]
      BY <2>3
    <3> QED
      BY <2>1, <2>3, <3>1 DEF Run, RunStatus, ItemStatus
  <2> QED
    BY <2>2, <2>3
<1>4. f \in [RunNumbers -> Run]
  BY <1>3
<1> HIDE DEF f
<1>5. runs' \in Seq(Run) /\ RunNumbers' = RunNumbers
  BY <1>2, <1>4, RunsRewritten DEF TypeOK
<1> QED
  BY <1>1, <1>2, <1>3, <1>5

LEMMA FailedRuns ==
  ASSUME TypeOK, WorkersOwnRuns, NEW t \in Tasks, NEW retryable \in BOOLEAN,
         RecordFailure(t, retryable)
  PROVE  /\ runs' \in Seq(Run)
         /\ RunNumbers' = RunNumbers
         /\ message[t].run \in RunNumbers
         /\ runs[message[t].run].status = "running"
         /\ runs'[message[t].run].status = "failed"
         /\ \A s \in RunNumbers :
              /\ runs'[s].document = runs[s].document
              /\ runs'[s].task = runs[s].task
              /\ runs'[s].items = runs[s].items
              /\ runs'[s].resolved = runs[s].resolved
              /\ runs'[s].approvedSource = runs[s].approvedSource
              /\ s # message[t].run => runs'[s].status = runs[s].status
<1> DEFINE r == message[t].run
           e == [runs[r] EXCEPT !.status = "failed"]
<1>1. r \in RunNumbers /\ runs[r] \in Run /\ runs[r].status = "running"
  BY OwnedRunExists DEF RecordFailure, MoveMessage
<1>2. /\ e \in Run
      /\ e.status = "failed"
      /\ e.document = runs[r].document /\ e.task = runs[r].task
      /\ e.items = runs[r].items /\ e.resolved = runs[r].resolved
      /\ e.approvedSource = runs[r].approvedSource
  BY <1>1 DEF Run, RunStatus
<1>3. runs' = [runs EXCEPT ![r] = e]
  BY DEF RecordFailure
<1> HIDE DEF e
<1>4. /\ runs' \in Seq(Run)
      /\ RunNumbers' = RunNumbers
      /\ \A s \in RunNumbers : runs'[s] = IF s = r THEN e ELSE runs[s]
  BY <1>1, <1>2, <1>3, RunReplaced DEF TypeOK
<1> QED
  BY <1>1, <1>2, <1>4

LEMMA EditedRuns ==
  ASSUME TypeOK, NEW r \in RunNumbers, EditItem(r)
  PROVE  /\ runs' \in Seq(Run)
         /\ RunNumbers' = RunNumbers
         /\ \A s \in RunNumbers :
              /\ runs'[s] = IF s = r THEN [runs[s] EXCEPT !.resolved = TRUE] ELSE runs[s]
              /\ runs'[s].document = runs[s].document
<1> DEFINE e == [runs[r] EXCEPT !.resolved = TRUE]
<1>1. runs[r] \in Run
  BY ElementOfSeq DEF TypeOK, RunNumbers
<1>2. e \in Run /\ e.document = runs[r].document
  BY <1>1 DEF Run
<1>3. runs' = [runs EXCEPT ![r] = e]
  BY DEF EditItem
<1> HIDE DEF e
<1>4. /\ runs' \in Seq(Run)
      /\ RunNumbers' = RunNumbers
      /\ \A s \in RunNumbers : runs'[s] = IF s = r THEN e ELSE runs[s]
  BY <1>2, <1>3, RunReplaced DEF TypeOK
<1> QED
  BY <1>2, <1>4 DEF e

LEMMA ApprovedRuns ==
  ASSUME TypeOK, NEW r \in RunNumbers, ApproveQuote(r)
  PROVE  /\ runs' \in Seq(Run)
         /\ RunNumbers' = RunNumbers
         /\ \A s \in RunNumbers :
              /\ runs'[s] = IF s = r THEN [runs[s] EXCEPT !.approvedSource = TRUE] ELSE runs[s]
              /\ runs'[s].document = runs[s].document
<1> DEFINE e == [runs[r] EXCEPT !.approvedSource = TRUE]
<1>1. runs[r] \in Run
  BY ElementOfSeq DEF TypeOK, RunNumbers
<1>2. e \in Run /\ e.document = runs[r].document
  BY <1>1 DEF Run
<1>3. runs' = [runs EXCEPT ![r] = e]
  BY DEF ApproveQuote
<1> HIDE DEF e
<1>4. /\ runs' \in Seq(Run)
      /\ RunNumbers' = RunNumbers
      /\ \A s \in RunNumbers : runs'[s] = IF s = r THEN e ELSE runs[s]
  BY <1>2, <1>3, RunReplaced DEF TypeOK
<1> QED
  BY <1>2, <1>4 DEF e

-----------------------------------------------------------------------------
(* Type correctness *)

\* A step of a message leaves a well-typed message.
LEMMA MessageMoved ==
  ASSUME TypeOK, NEW t \in Tasks, NEW p \in Place,
         message' = [message EXCEPT ![t].place = p]
  PROVE  message' \in [Tasks -> [place : Place, retries : Nat, run : Nat]]
BY DEF TypeOK

\* Every step of every request, worker, reviewer and crash writes values of
\* the columns' types and references to rows that exist.
LEMMA TypePreserved ==
  TypeOK /\ WorkersOwnRuns /\ [Next]_vars => TypeOK'
<1> SUFFICES ASSUME TypeOK, WorkersOwnRuns, [Next]_vars
             PROVE  TypeOK'
  OBVIOUS
<1> USE DEF SetStatus, MoveMessage, LeaveFor
<1>1. CASE UploadMarksReady
  BY <1>1 DEF UploadMarksReady, TypeOK, RunNumbers, QuoteStatus
<1>2. CASE UploadEnds
  BY <1>2 DEF UploadEnds, TypeOK, RunNumbers
<1>3. CASE AddDocument
  BY <1>3, SMT DEF AddDocument, TypeOK, RunNumbers, DocumentStatus
<1>4. ASSUME NEW t \in Tasks, RequestAnalysis(t)
      PROVE  TypeOK'
  BY <1>4, MessageMoved DEF RequestAnalysis, CreateTask, TypeOK, RunNumbers, QuoteStatus,
     AllRoutes, TaskStatus, Place
<1>5. ASSUME NEW t \in Tasks, RequestReanalysis(t)
      PROVE  TypeOK'
  BY <1>5 DEF RequestReanalysis, CreateTask, TypeOK, RunNumbers, QuoteStatus,
     AllRoutes, TaskStatus, Place
<1>6. ASSUME NEW t \in Tasks, RequestProcessing(t)
      PROVE  TypeOK'
  BY <1>6 DEF RequestProcessing, CreateTask, TypeOK, RunNumbers, QuoteStatus,
     AllRoutes, TaskStatus, Place
<1>7. ASSUME NEW t \in Tasks, RequestReprocessing(t)
      PROVE  TypeOK'
  BY <1>7 DEF RequestReprocessing, CreateTask, TypeOK, RunNumbers, QuoteStatus,
     AllRoutes, TaskStatus, Place
<1>8. ASSUME NEW t \in Tasks, Publish(t)
      PROVE  TypeOK'
  BY <1>8 DEF Publish, TypeOK, RunNumbers, Place
<1>9. ASSUME NEW t \in Tasks, PublishFails(t)
      PROVE  TypeOK'
  <2>1. message' \in [Tasks -> [place : Place, retries : Nat, run : Nat]]
    BY <1>9, MessageMoved DEF PublishFails, Place
  <2>2. /\ quote' \in [status : QuoteStatus, approvedRun : Nat]
        /\ quote'.approvedRun = quote.approvedRun
    BY <1>9 DEF PublishFails, AfterAnalysisFailure, TypeOK, QuoteStatus
  <2>3. task' \in [Tasks -> [route : AllRoutes, status : TaskStatus]]
    <3>1. task' = task \/ task' = [task EXCEPT ![t].status = "retry_pending"]
      BY <1>9 DEF PublishFails
    <3>2. task \in [Tasks -> [route : AllRoutes, status : TaskStatus]]
      BY DEF TypeOK
    <3> QED
      BY <3>1, <3>2 DEF TaskStatus
  <2> QED
    BY <1>9, <2>1, <2>2, <2>3 DEF PublishFails, TypeOK, RunNumbers
<1>10. ASSUME NEW t \in Tasks, RequestDies(t)
       PROVE  TypeOK'
  BY <1>10 DEF RequestDies, TypeOK, RunNumbers, Place
<1>11. ASSUME NEW t \in Tasks, RestartForRetry(t)
       PROVE  TypeOK'
  BY <1>11 DEF RestartForRetry, TypeOK, RunNumbers, Place, QuoteStatus
<1>12. ASSUME NEW t \in Tasks,
              AiServiceMissing(t) \/ ReuseCompletedRun(t) \/ RefuseAnalysis(t)
       PROVE  TypeOK'
  <2>1. message' \in [Tasks -> [place : Place, retries : Nat, run : Nat]]
    BY <1>12, MessageMoved DEF AiServiceMissing, ReuseCompletedRun, RefuseAnalysis, Place
  <2> QED
    BY <1>12, <2>1 DEF AiServiceMissing, ReuseCompletedRun, RefuseAnalysis, TypeOK, RunNumbers
<1>13. ASSUME NEW t \in Tasks, StartAnalysis(t)
       PROVE  TypeOK'
  <2> DEFINE new == [document |-> Len(documents), task |-> t, status |-> "running",
                     items |-> "none", resolved |-> FALSE, approvedSource |-> FALSE]
  <2>1. Len(documents) \in Nat \ {0}
    BY EmptySeq DEF TypeOK
  <2>2. new \in Run /\ new.document = Len(documents)
    BY <2>1 DEF Run, RunStatus, ItemStatus
  <2>3. runs' = Append(runs, new)
    BY <1>13 DEF StartAnalysis
  <2> HIDE DEF new
  <2>4. /\ runs' \in Seq(Run)
        /\ RunNumbers' = RunNumbers \cup {Len(runs) + 1}
        /\ runs'[Len(runs) + 1] = new
        /\ \A s \in RunNumbers : runs'[s] = runs[s]
    BY <2>2, <2>3, RunAppended DEF TypeOK
  <2>5. documents[Len(documents)] \in DocumentStatus
    BY <2>1, ElementOfSeq DEF TypeOK
  <2>6. AfterStart(documents[Len(documents)]) \in DocumentStatus
    BY <2>5 DEF AfterStart, DocumentStatus
  <2>7. /\ documents' \in Seq(DocumentStatus)
        /\ documents' # <<>>
        /\ Len(documents') = Len(documents)
    BY <1>13, <2>1, <2>6, DocumentReplaced DEF StartAnalysis, TypeOK
  <2>8. \A r \in RunNumbers' : runs'[r].document \in 1..Len(documents')
    <3>1. \A r \in RunNumbers : runs'[r].document \in 1..Len(documents')
      BY <2>4, <2>7 DEF TypeOK
    <3>2. Len(documents) \in 1..Len(documents)
      BY <2>1
    <3>3. runs'[Len(runs) + 1].document \in 1..Len(documents')
      BY <2>2, <2>4, <2>7, <3>2
    <3> QED
      BY <2>4, <3>1, <3>3
  <2>9. quote' \in [status : QuoteStatus, approvedRun : Nat]
        /\ quote'.approvedRun = quote.approvedRun
    BY <1>13 DEF StartAnalysis, TypeOK, QuoteStatus
  <2>10. task' \in [Tasks -> [route : AllRoutes, status : TaskStatus]]
    BY <1>13 DEF StartAnalysis, TypeOK, TaskStatus
  <2>11. message' \in [Tasks -> [place : Place, retries : Nat, run : Nat]]
    <3>1. PICK n \in Nat : n = Len(runs) + 1
      <4>1. Len(runs) \in Nat
        BY LenProperties DEF TypeOK
      <4> QED
        BY <4>1
    <3>2. message' = [message EXCEPT ![t] = [@ EXCEPT !.place = "extracting", !.run = n]]
      BY <1>13, <3>1 DEF StartAnalysis
    <3>3. message \in [Tasks -> [place : Place, retries : Nat, run : Nat]]
      BY DEF TypeOK
    <3>4. message[t] \in [place : Place, retries : Nat, run : Nat]
      BY <3>3
    <3>5. [message[t] EXCEPT !.place = "extracting", !.run = n]
            \in [place : Place, retries : Nat, run : Nat]
      BY <3>4 DEF Place
    <3> QED
      BY <3>2, <3>3, <3>5
  <2>12. quote'.approvedRun \in RunNumbers' \cup {NoRun}
    BY <2>4, <2>9 DEF TypeOK
  <2> QED
    BY <1>13, <2>4, <2>7, <2>8, <2>9, <2>10, <2>11, <2>12 DEF StartAnalysis, TypeOK
<1>14. ASSUME NEW t \in Tasks, NEW resolved \in BOOLEAN, PersistAnalysis(t, resolved)
       PROVE  TypeOK'
  <2>1. /\ message[t].run \in RunNumbers
        /\ runs[message[t].run].document \in 1..Len(documents)
    BY <1>14, OwnedRunExists DEF PersistAnalysis
  <2>2. /\ runs' \in Seq(Run)
        /\ RunNumbers' = RunNumbers
        /\ \A s \in RunNumbers : runs'[s].document = runs[s].document
    BY <1>14, PersistedRuns DEF TypeOK
  <2>3. /\ documents' \in Seq(DocumentStatus)
        /\ documents' # <<>>
        /\ Len(documents') = Len(documents)
    BY <1>14, <2>1, DocumentReplaced DEF PersistAnalysis, TypeOK, DocumentStatus
  <2>4. quote' \in [status : QuoteStatus, approvedRun : Nat]
        /\ quote'.approvedRun = quote.approvedRun
    BY <1>14 DEF PersistAnalysis, TypeOK, QuoteStatus
  <2>5. task' \in [Tasks -> [route : AllRoutes, status : TaskStatus]]
    BY <1>14 DEF PersistAnalysis, TypeOK, TaskStatus
  <2>6. message' \in [Tasks -> [place : Place, retries : Nat, run : Nat]]
    BY <1>14, MessageMoved DEF PersistAnalysis, Place
  <2> QED
    BY <1>14, <2>2, <2>3, <2>4, <2>5, <2>6 DEF PersistAnalysis, TypeOK
<1>15. ASSUME NEW t \in Tasks, AnalysisRaises(t)
       PROVE  TypeOK'
  BY <1>15 DEF AnalysisRaises, TypeOK, RunNumbers, Place
<1>16. ASSUME NEW t \in Tasks, NEW retryable \in BOOLEAN, RecordFailure(t, retryable)
       PROVE  TypeOK'
  <2>1. /\ message[t].run \in RunNumbers
        /\ runs[message[t].run].document \in 1..Len(documents)
    BY <1>16, OwnedRunExists DEF RecordFailure
  <2>2. /\ runs' \in Seq(Run)
        /\ RunNumbers' = RunNumbers
        /\ \A s \in RunNumbers : runs'[s].document = runs[s].document
    BY <1>16, FailedRuns DEF TypeOK
  <2>3. /\ documents' \in Seq(DocumentStatus)
        /\ documents' # <<>>
        /\ Len(documents') = Len(documents)
    BY <1>16, <2>1, DocumentReplaced DEF RecordFailure, TypeOK, DocumentStatus
  <2>4. quote' \in [status : QuoteStatus, approvedRun : Nat]
        /\ quote'.approvedRun = quote.approvedRun
    BY <1>16 DEF RecordFailure, AfterAnalysisFailure, TypeOK, QuoteStatus
  <2>5. task' \in [Tasks -> [route : AllRoutes, status : TaskStatus]]
    BY <1>16 DEF RecordFailure, TypeOK, TaskStatus
  <2>6. message' \in [Tasks -> [place : Place, retries : Nat, run : Nat]]
    BY <1>16, MessageMoved DEF RecordFailure, Place
  <2> QED
    BY <1>16, <2>2, <2>3, <2>4, <2>5, <2>6 DEF RecordFailure, TypeOK
<1>17. ASSUME NEW t \in Tasks, RetryTask(t)
       PROVE  TypeOK'
  BY <1>17 DEF RetryTask, TypeOK, RunNumbers, Place, NoRun
<1>18. ASSUME NEW t \in Tasks, Acknowledge(t)
       PROVE  TypeOK'
  BY <1>18 DEF Acknowledge, TypeOK, RunNumbers, Place, NoRun
<1>19. ASSUME NEW t \in Tasks, WorkerCrash(t)
       PROVE  TypeOK'
  <2>1. message' \in [Tasks -> [place : Place, retries : Nat, run : Nat]]
    BY <1>19 DEF WorkerCrash, TypeOK, Place, NoRun
  <2> QED
    BY <1>19, <2>1 DEF WorkerCrash, TypeOK, RunNumbers
<1>20. ASSUME NEW r \in RunNumbers, EditItem(r)
       PROVE  TypeOK'
  BY <1>20, EditedRuns DEF EditItem, TypeOK
<1>21. ASSUME NEW r \in RunNumbers, ApproveQuote(r)
       PROVE  TypeOK'
  <2>1. r \in Nat
    BY LenProperties DEF TypeOK, RunNumbers
  <2> QED
    BY <1>21, <2>1, ApprovedRuns DEF ApproveQuote, TypeOK, QuoteStatus
<1>22. CASE RejectQuote
  BY <1>22 DEF RejectQuote, TypeOK, RunNumbers, QuoteStatus
<1>23. CASE IncludeInComparison
  BY <1>23 DEF IncludeInComparison, TypeOK, RunNumbers, QuoteStatus
<1>24. CASE UNCHANGED vars
  BY <1>24 DEF vars, TypeOK, RunNumbers
<1> QED
  BY <1>1, <1>2, <1>3, <1>4, <1>5, <1>6, <1>7, <1>8, <1>9, <1>10, <1>11, <1>12, <1>13,
     <1>14, <1>15, <1>16, <1>17, <1>18, <1>19, <1>20, <1>21, <1>22, <1>23, <1>24
  DEF Next, Reception, Review, Request, Work

-----------------------------------------------------------------------------
(* Ownership of runs *)

\* A step of task t that keeps the runs of the other tasks as they are keeps
\* their ownership.
LEMMA OthersKeepTheirRuns ==
  ASSUME WorkersOwnRuns, NEW t \in Tasks,
         \A u \in Tasks \ {t} : message'[u] = message[u],
         \A s \in RunNumbers :
           /\ s \in RunNumbers'
           /\ runs'[s].task = runs[s].task
           /\ runs[s].task # t => runs'[s].status = runs[s].status,
         message'[t].place \in {"extracting", "raising"} =>
           /\ message'[t].run \in RunNumbers'
           /\ runs'[message'[t].run].task = t
           /\ runs'[message'[t].run].status = "running"
  PROVE  WorkersOwnRuns'
<1> SUFFICES ASSUME NEW u \in Tasks, u # t, message[u].place \in {"extracting", "raising"}
             PROVE  /\ message[u].run \in RunNumbers'
                    /\ runs'[message[u].run].task = u
                    /\ runs'[message[u].run].status = "running"
  BY DEF WorkersOwnRuns
<1> QED
  BY DEF WorkersOwnRuns

\* No request, worker, reviewer or crash takes away the run another worker is
\* executing.
LEMMA OwnershipPreserved ==
  TypeOK /\ WorkersOwnRuns /\ [Next]_vars => WorkersOwnRuns'
<1> SUFFICES ASSUME TypeOK, WorkersOwnRuns, [Next]_vars
             PROVE  WorkersOwnRuns'
  OBVIOUS
<1> DEFINE Msg == [Tasks -> [place : Place, retries : Nat, run : Nat]]
<1>m. message \in Msg
  BY DEF TypeOK
<1> HIDE DEF Msg
<1>1. CASE message' = message /\ runs' = runs
  BY <1>1 DEF WorkersOwnRuns, RunNumbers
<1>2. ASSUME NEW t \in Tasks, NEW p \in Place \ {"extracting", "raising"},
             message' = [message EXCEPT ![t].place = p], runs' = runs
      PROVE  WorkersOwnRuns'
  BY <1>2, <1>m DEF WorkersOwnRuns, RunNumbers, Msg
<1>3. ASSUME NEW t \in Tasks, StartAnalysis(t)
      PROVE  WorkersOwnRuns'
  <2> DEFINE new == [document |-> Len(documents), task |-> t, status |-> "running",
                     items |-> "none", resolved |-> FALSE, approvedSource |-> FALSE]
  <2>1. new \in Run /\ new.task = t /\ new.status = "running"
    <3>1. Len(documents) \in Nat \ {0}
      BY EmptySeq DEF TypeOK
    <3> QED
      BY <3>1 DEF Run, RunStatus, ItemStatus
  <2>2. runs' = Append(runs, new)
    BY <1>3 DEF StartAnalysis
  <2> HIDE DEF new
  <2>3. /\ RunNumbers' = RunNumbers \cup {Len(runs) + 1}
        /\ runs'[Len(runs) + 1] = new
        /\ \A s \in RunNumbers : runs'[s] = runs[s]
    BY <2>1, <2>2, RunAppended DEF TypeOK
  <2>4. PICK n : n = Len(runs) + 1
    OBVIOUS
  <2>5. message' = [message EXCEPT ![t] = [@ EXCEPT !.place = "extracting", !.run = n]]
    BY <1>3, <2>4 DEF StartAnalysis
  <2>6. message'[t].run = n /\ \A u \in Tasks \ {t} : message'[u] = message[u]
    BY <2>5, <1>m DEF Msg
  <2> QED
    BY <2>1, <2>3, <2>4, <2>6, OthersKeepTheirRuns
<1>4. ASSUME NEW t \in Tasks, NEW resolved \in BOOLEAN, PersistAnalysis(t, resolved)
      PROVE  WorkersOwnRuns'
  <2>1. message'[t].place = "returned" /\ \A u \in Tasks \ {t} : message'[u] = message[u]
    BY <1>4, <1>m DEF PersistAnalysis, MoveMessage, Msg
  <2>2. runs[message[t].run].task = t
    BY <1>4, OwnedRunExists DEF PersistAnalysis, MoveMessage
  <2>3. ASSUME NEW s \in RunNumbers
        PROVE  /\ s \in RunNumbers'
               /\ runs'[s].task = runs[s].task
               /\ s # message[t].run => runs'[s].status = runs[s].status
    BY <1>4, PersistedRuns
  <2> QED
    BY <2>1, <2>2, <2>3, OthersKeepTheirRuns
<1>5. ASSUME NEW t \in Tasks, AnalysisRaises(t)
      PROVE  WorkersOwnRuns'
  BY <1>5, <1>m DEF AnalysisRaises, MoveMessage, WorkersOwnRuns, RunNumbers, Msg
<1>6. ASSUME NEW t \in Tasks, NEW retryable \in BOOLEAN, RecordFailure(t, retryable)
      PROVE  WorkersOwnRuns'
  <2>1. /\ message'[t].place \in {"retrying", "returned"}
        /\ \A u \in Tasks \ {t} : message'[u] = message[u]
    BY <1>6, <1>m DEF RecordFailure, MoveMessage, Msg
  <2>2. runs[message[t].run].task = t
    BY <1>6, OwnedRunExists DEF RecordFailure, MoveMessage
  <2>3. ASSUME NEW s \in RunNumbers
        PROVE  /\ s \in RunNumbers'
               /\ runs'[s].task = runs[s].task
               /\ s # message[t].run => runs'[s].status = runs[s].status
    BY <1>6, FailedRuns
  <2> QED
    BY <2>1, <2>2, <2>3, OthersKeepTheirRuns
<1>7. ASSUME NEW t \in Tasks, RetryTask(t) \/ Acknowledge(t) \/ WorkerCrash(t)
      PROVE  WorkersOwnRuns'
  <2>1. /\ message'[t].place \in {"queued", "gone"}
        /\ \A u \in Tasks \ {t} : message'[u] = message[u]
    <3>1. CASE RetryTask(t)
      BY <3>1, <1>m DEF RetryTask, Msg
    <3>2. CASE Acknowledge(t) \/ WorkerCrash(t)
      <4>1. PICK p \in {"queued", "gone"} :
              message' = [message EXCEPT ![t] = [@ EXCEPT !.place = p, !.run = NoRun]]
        BY <3>2 DEF Acknowledge, WorkerCrash
      <4> QED
        BY <4>1, <1>m DEF Msg
    <3> QED
      BY <1>7, <3>1, <3>2
  <2>2. runs' = runs
    BY <1>7 DEF RetryTask, Acknowledge, WorkerCrash
  <2> QED
    BY <2>1, <2>2 DEF WorkersOwnRuns, RunNumbers
<1>8. ASSUME NEW r \in RunNumbers, EditItem(r) \/ ApproveQuote(r)
      PROVE  WorkersOwnRuns'
  <2>1. message' = message
    BY <1>8 DEF EditItem, ApproveQuote
  <2>2. ASSUME NEW s \in RunNumbers
        PROVE  /\ s \in RunNumbers'
               /\ runs'[s].task = runs[s].task
               /\ runs'[s].status = runs[s].status
    <3>1. runs[s] \in Run
      BY ElementOfSeq DEF TypeOK, RunNumbers
    <3> QED
      BY <1>8, <3>1, EditedRuns, ApprovedRuns DEF Run
  <2> QED
    BY <2>1, <2>2 DEF WorkersOwnRuns
<1>9. ASSUME NEW t \in Tasks, Request(t) \/ AiServiceMissing(t)
      PROVE  WorkersOwnRuns'
  <2>1. runs' = runs /\ \E p \in {"requested", "queued", "gone", "retrying"} :
                          message' = [message EXCEPT ![t].place = p]
    BY <1>9 DEF Request, RequestAnalysis, RequestReanalysis, RequestProcessing,
       RequestReprocessing, CreateTask, Publish, PublishFails, RequestDies, AiServiceMissing,
       MoveMessage, LeaveFor
  <2> QED
    BY <2>1, <1>2 DEF Place
<1>10. ASSUME NEW t \in Tasks, RestartForRetry(t) \/ ReuseCompletedRun(t) \/ RefuseAnalysis(t)
       PROVE  WorkersOwnRuns'
  <2>1. runs' = runs /\ \E p \in {"restarted", "returned"} :
                          message' = [message EXCEPT ![t].place = p]
    BY <1>10 DEF RestartForRetry, ReuseCompletedRun, RefuseAnalysis, MoveMessage, LeaveFor
  <2> QED
    BY <2>1, <1>2 DEF Place
<1>11. CASE Reception \/ RejectQuote \/ IncludeInComparison \/ UNCHANGED vars
  BY <1>11, <1>1 DEF Reception, UploadMarksReady, UploadEnds, AddDocument, RejectQuote,
     IncludeInComparison, vars
<1> QED
  BY <1>3, <1>4, <1>5, <1>6, <1>7, <1>8, <1>9, <1>10, <1>11 DEF Next, Review, Work

-----------------------------------------------------------------------------
(* What is under review, and what was approved *)

\* A step that leaves the runs alone, and sends the quote neither to review
\* nor to approval, keeps what both stand on.
LEMMA ReviewUntouched ==
  ASSUME OneCurrentExtraction, ApprovalStandsOnItsRun,
         runs' = runs,
         quote'.approvedRun = quote.approvedRun,
         quote'.status = "pending_review" => quote.status = "pending_review",
         quote'.status \in Approved => quote.status \in Approved
  PROVE  OneCurrentExtraction' /\ ApprovalStandsOnItsRun'
BY DEF OneCurrentExtraction, ApprovalStandsOnItsRun, CompletedRuns, CurrentRuns, RunNumbers

\* No interleaving of requests, workers, retries, redeliveries and reviewers
\* makes the items of two runs current, or changes what an approval stands on.
LEMMA ReviewPreserved ==
  TypeOK /\ WorkersOwnRuns /\ OneCurrentExtraction /\ ApprovalStandsOnItsRun /\ [Next]_vars
    => OneCurrentExtraction' /\ ApprovalStandsOnItsRun'
<1> SUFFICES ASSUME TypeOK, WorkersOwnRuns, OneCurrentExtraction, ApprovalStandsOnItsRun,
                    [Next]_vars
             PROVE  OneCurrentExtraction' /\ ApprovalStandsOnItsRun'
  OBVIOUS
<1>q. quote \in [status : QuoteStatus, approvedRun : Nat]
  BY DEF TypeOK
<1>r. \A s \in RunNumbers : runs[s] \in Run
  BY ElementOfSeq DEF TypeOK, RunNumbers
<1>1. CASE Reception \/ RejectQuote \/ UNCHANGED vars
  BY <1>1, <1>q, ReviewUntouched DEF Reception, UploadMarksReady, UploadEnds, AddDocument,
     RejectQuote, SetStatus, Approved, vars
<1>2. CASE IncludeInComparison
  BY <1>2, <1>q, ReviewUntouched DEF IncludeInComparison, SetStatus, Approved
<1>3. ASSUME NEW t \in Tasks,
             \/ RequestAnalysis(t) \/ RequestReanalysis(t) \/ RequestProcessing(t)
             \/ RequestReprocessing(t) \/ Publish(t) \/ RequestDies(t)
      PROVE  OneCurrentExtraction' /\ ApprovalStandsOnItsRun'
  BY <1>3, <1>q, ReviewUntouched DEF RequestAnalysis, RequestReanalysis, RequestProcessing,
     RequestReprocessing, CreateTask, Publish, RequestDies, SetStatus, Approved
<1>4. ASSUME NEW t \in Tasks, PublishFails(t)
      PROVE  OneCurrentExtraction' /\ ApprovalStandsOnItsRun'
  <2>1. \/ quote' = quote
        \/ quote' = [quote EXCEPT !.status = "failed"]
        \/ quote' = [quote EXCEPT !.status = AfterAnalysisFailure(quote.status)]
    BY <1>4 DEF PublishFails, SetStatus
  <2>2. runs' = runs
    BY <1>4 DEF PublishFails
  <2> QED
    BY <2>1, <2>2, <1>q, ReviewUntouched DEF AfterAnalysisFailure, Approved
<1>5. ASSUME NEW t \in Tasks,
             \/ RestartForRetry(t) \/ ReuseCompletedRun(t) \/ RefuseAnalysis(t)
             \/ AnalysisRaises(t) \/ RetryTask(t) \/ Acknowledge(t)
             \/ AiServiceMissing(t) \/ WorkerCrash(t)
      PROVE  OneCurrentExtraction' /\ ApprovalStandsOnItsRun'
  BY <1>5, <1>q, ReviewUntouched DEF RestartForRetry, ReuseCompletedRun, RefuseAnalysis,
     AnalysisRaises, RetryTask, Acknowledge, AiServiceMissing, WorkerCrash, SetStatus, Approved
<1>6. ASSUME NEW t \in Tasks, StartAnalysis(t)
      PROVE  OneCurrentExtraction' /\ ApprovalStandsOnItsRun'
  <2> DEFINE new == [document |-> Len(documents), task |-> t, status |-> "running",
                     items |-> "none", resolved |-> FALSE, approvedSource |-> FALSE]
  <2>1. new \in Run /\ new.items = "none" /\ new.status = "running"
    <3>1. Len(documents) \in Nat \ {0}
      BY EmptySeq DEF TypeOK
    <3> QED
      BY <3>1 DEF Run, RunStatus, ItemStatus
  <2>2. runs' = Append(runs, new)
    BY <1>6 DEF StartAnalysis
  <2> HIDE DEF new
  <2>3. /\ RunNumbers' = RunNumbers \cup {Len(runs) + 1}
        /\ runs'[Len(runs) + 1] = new
        /\ Len(runs) + 1 \notin RunNumbers
        /\ \A s \in RunNumbers : runs'[s] = runs[s]
    BY <2>1, <2>2, RunAppended DEF TypeOK
  <2>4. CompletedRuns' = CompletedRuns /\ CurrentRuns' = CurrentRuns
    BY <2>1, <2>3 DEF CompletedRuns, CurrentRuns
  <2>5. quote'.status = "analyzing"
    BY <1>6, <1>q DEF StartAnalysis, SetStatus
  <2> QED
    BY <2>1, <2>3, <2>4, <2>5 DEF OneCurrentExtraction, ApprovalStandsOnItsRun, Approved
<1>7. ASSUME NEW t \in Tasks, NEW resolved \in BOOLEAN, PersistAnalysis(t, resolved)
      PROVE  OneCurrentExtraction' /\ ApprovalStandsOnItsRun'
  <2>1. /\ RunNumbers' = RunNumbers
        /\ message[t].run \in RunNumbers
    BY <1>7, PersistedRuns
  <2>2. /\ runs'[message[t].run].items = "current"
        /\ runs'[message[t].run].status = "completed"
    BY <1>7, PersistedRuns
  <2>3. ASSUME NEW s \in RunNumbers, s # message[t].run
        PROVE  /\ runs'[s].items # "current"
               /\ runs'[s].items = "none" <=> runs[s].items = "none"
               /\ runs'[s].status = runs[s].status
    BY <1>7, <2>3, PersistedRuns
  <2>4. CurrentRuns' = {message[t].run}
    BY <2>1, <2>2, <2>3 DEF CurrentRuns
  <2>5. quote'.status = "pending_review"
    BY <1>7, <1>q DEF PersistAnalysis, SetStatus
  <2>6. \A s \in RunNumbers' : runs'[s].items # "none" <=> runs'[s].status = "completed"
    BY <2>1, <2>2, <2>3 DEF OneCurrentExtraction
  <2>7. CompletedRuns' # {}
    BY <2>1, <2>2 DEF CompletedRuns
  <2> QED
    BY <2>1, <2>4, <2>5, <2>6, <2>7 DEF OneCurrentExtraction, ApprovalStandsOnItsRun, Approved
<1>8. ASSUME NEW t \in Tasks, NEW retryable \in BOOLEAN, RecordFailure(t, retryable)
      PROVE  OneCurrentExtraction' /\ ApprovalStandsOnItsRun'
  <2>1. /\ RunNumbers' = RunNumbers
        /\ message[t].run \in RunNumbers
        /\ runs[message[t].run].status = "running"
    BY <1>8, FailedRuns, OwnedRunExists DEF RecordFailure, MoveMessage
  <2>2. ASSUME NEW s \in RunNumbers
        PROVE  /\ runs'[s].items = runs[s].items
               /\ runs'[s].status = "completed" <=> runs[s].status = "completed"
               /\ runs'[s].resolved = runs[s].resolved
               /\ runs'[s].approvedSource = runs[s].approvedSource
    BY <1>8, <2>1, FailedRuns
  <2>3. CompletedRuns' = CompletedRuns /\ CurrentRuns' = CurrentRuns
    BY <2>1, <2>2 DEF CompletedRuns, CurrentRuns
  <2>4. /\ quote'.status = AfterAnalysisFailure(quote.status)
        /\ quote'.approvedRun = quote.approvedRun
    BY <1>8, <1>q DEF RecordFailure, SetStatus
  <2> QED
    BY <2>1, <2>2, <2>3, <2>4
    DEF OneCurrentExtraction, ApprovalStandsOnItsRun, AfterAnalysisFailure, Approved
<1>9. ASSUME NEW r \in RunNumbers, EditItem(r)
      PROVE  OneCurrentExtraction' /\ ApprovalStandsOnItsRun'
  <2>1. RunNumbers' = RunNumbers
    BY <1>9, EditedRuns
  <2>2. ASSUME NEW s \in RunNumbers
        PROVE  runs'[s].items = runs[s].items /\ runs'[s].status = runs[s].status
    BY <1>9, <1>r, EditedRuns DEF Run
  <2>3. CompletedRuns' = CompletedRuns /\ CurrentRuns' = CurrentRuns
    BY <2>1, <2>2 DEF CompletedRuns, CurrentRuns
  <2>4. quote'.status = "pending_review" /\ quote.status = "pending_review"
    BY <1>9 DEF EditItem
  <2> QED
    BY <2>1, <2>2, <2>3, <2>4 DEF OneCurrentExtraction, ApprovalStandsOnItsRun, Approved
<1>10. ASSUME NEW r \in RunNumbers, ApproveQuote(r)
       PROVE  OneCurrentExtraction' /\ ApprovalStandsOnItsRun'
  <2>1. RunNumbers' = RunNumbers
    BY <1>10, ApprovedRuns
  <2>2. ASSUME NEW s \in RunNumbers
        PROVE  /\ runs'[s].items = runs[s].items
               /\ runs'[s].status = runs[s].status
               /\ runs'[s].resolved = runs[s].resolved
    BY <1>10, <1>r, ApprovedRuns DEF Run
  <2>3. CompletedRuns' = CompletedRuns /\ CurrentRuns' = CurrentRuns
    BY <2>1, <2>2 DEF CompletedRuns, CurrentRuns
  <2>4. runs'[r].approvedSource
    BY <1>10, <1>r, ApprovedRuns DEF Run
  <2>5. runs[r].items = "current" /\ runs[r].resolved
    BY <1>10 DEF ApproveQuote, CurrentRuns
  <2>6. quote' = [status |-> "approved", approvedRun |-> r]
    BY <1>10 DEF ApproveQuote
  <2> QED
    BY <2>1, <2>2, <2>3, <2>4, <2>5, <2>6 DEF OneCurrentExtraction, ApprovalStandsOnItsRun
<1> QED
  BY <1>1, <1>2, <1>3, <1>4, <1>5, <1>6, <1>7, <1>8, <1>9, <1>10
  DEF Next, Review, Request, Work

-----------------------------------------------------------------------------
(* The invariant *)

\* The inductive invariant: who owns a run is what keeps a late worker off the
\* runs that are under review or approved.
Inv ==
  /\ TypeOK
  /\ WorkersOwnRuns
  /\ OneCurrentExtraction
  /\ ApprovalStandsOnItsRun

LEMMA InvInit == Init => Inv
<1> SUFFICES ASSUME Init
             PROVE  Inv
  OBVIOUS
<1>1. RunNumbers = {} /\ runs = <<>>
  BY DEF Init, RunNumbers
<1>2. documents \in Seq(DocumentStatus) /\ documents # <<>>
  BY DEF Init, DocumentStatus
<1>3. TypeOK
  BY <1>1, <1>2 DEF Init, TypeOK, QuoteStatus, NoRun, AllRoutes, TaskStatus, Place
<1>4. WorkersOwnRuns
  BY DEF Init, WorkersOwnRuns
<1>5. OneCurrentExtraction /\ ApprovalStandsOnItsRun
  BY <1>1 DEF Init, OneCurrentExtraction, ApprovalStandsOnItsRun, CompletedRuns, Approved
<1> QED
  BY <1>3, <1>4, <1>5 DEF Inv

LEMMA InvStep == Inv /\ [Next]_vars => Inv'
BY TypePreserved, OwnershipPreserved, ReviewPreserved DEF Inv

THEOREM Invariance == Spec => []Inv
BY InvInit, InvStep, PTL DEF Spec

\* Every reachable state of the rows, the tasks and the messages is well
\* typed, and no reference dangles.
THEOREM TypeCorrect == Spec => []TypeOK
BY Invariance, PTL DEF Inv

\* A worker of AnalyzeQuote always writes to a run of its own.
THEOREM WorkersAreIsolated == Spec => []WorkersOwnRuns
BY Invariance, PTL DEF Inv

\* A review never mixes two extractions.
THEOREM ReviewsAreWhole == Spec => []OneCurrentExtraction
BY Invariance, PTL DEF Inv

\* An approved quote stands on a completed, resolved, current extraction.
THEOREM ApprovalsStand == Spec => []ApprovalStandsOnItsRun
BY Invariance, PTL DEF Inv

-----------------------------------------------------------------------------
(* What a step may do *)

\* How the review of a quote moves when no extraction is written.
ReviewMoves ==
  \/ Phase' = Phase
  \/ Phase = "review" /\ Phase' \in {"open", "approved"}
  \/ Phase = "approved" /\ Phase' = "compared"

\* The steps of one kind: an extraction is written, or the completed and the
\* current runs stay as they are.
ExtractionWritten == \E t \in Tasks, resolved \in BOOLEAN : PersistAnalysis(t, resolved)

LEMMA ReviewMovesAlone ==
  ASSUME TypeOK, [Next]_vars, ~ExtractionWritten
  PROVE  ReviewMoves /\ (quote.status \in Approved => quote'.approvedRun = quote.approvedRun)
<1>q. quote \in [status : QuoteStatus, approvedRun : Nat]
  BY DEF TypeOK
<1> USE DEF Phase, ReviewMoves, Approved
<1>1. CASE Reception \/ UNCHANGED vars
  BY <1>1, <1>q DEF Reception, UploadMarksReady, UploadEnds, AddDocument, SetStatus,
     MayBecomeReady, vars
<1>2. CASE RejectQuote
  BY <1>2, <1>q DEF RejectQuote, SetStatus, MayMove, Transitions
<1>3. CASE IncludeInComparison
  BY <1>3, <1>q DEF IncludeInComparison, SetStatus
<1>4. ASSUME NEW r \in RunNumbers, EditItem(r) \/ ApproveQuote(r)
      PROVE  ReviewMoves /\ (quote.status \in Approved => quote'.approvedRun = quote.approvedRun)
  BY <1>4, <1>q DEF EditItem, ApproveQuote
<1>5. ASSUME NEW t \in Tasks,
             \/ RequestAnalysis(t) \/ RequestReanalysis(t) \/ RequestProcessing(t)
             \/ RequestReprocessing(t) \/ Publish(t) \/ RequestDies(t)
      PROVE  ReviewMoves /\ (quote.status \in Approved => quote'.approvedRun = quote.approvedRun)
  BY <1>5, <1>q DEF RequestAnalysis, RequestReanalysis, RequestProcessing,
     RequestReprocessing, Publish, RequestDies, SetStatus, MayBecomeReady,
     MayRestartAnalysis, MayRestartProcessing
<1>6. ASSUME NEW t \in Tasks, PublishFails(t)
      PROVE  ReviewMoves /\ (quote.status \in Approved => quote'.approvedRun = quote.approvedRun)
  <2>1. \/ quote' = quote
        \/ MayMove(quote.status, "failed") /\ quote' = [quote EXCEPT !.status = "failed"]
        \/ quote' = [quote EXCEPT !.status = AfterAnalysisFailure(quote.status)]
    BY <1>6 DEF PublishFails, SetStatus
  <2>2. MayMove(quote.status, "failed") => quote.status \notin Approved
    BY DEF MayMove, Transitions
  <2> QED
    BY <2>1, <2>2, <1>q DEF AfterAnalysisFailure
<1>7. ASSUME NEW t \in Tasks,
             \/ ReuseCompletedRun(t) \/ RefuseAnalysis(t)
             \/ AnalysisRaises(t) \/ RetryTask(t) \/ Acknowledge(t)
             \/ AiServiceMissing(t) \/ WorkerCrash(t)
      PROVE  ReviewMoves /\ (quote.status \in Approved => quote'.approvedRun = quote.approvedRun)
  BY <1>7 DEF ReuseCompletedRun, RefuseAnalysis, AnalysisRaises, RetryTask, Acknowledge,
     AiServiceMissing, WorkerCrash
<1>8. ASSUME NEW t \in Tasks, RestartForRetry(t) \/ StartAnalysis(t)
      PROVE  ReviewMoves /\ (quote.status \in Approved => quote'.approvedRun = quote.approvedRun)
  BY <1>8, <1>q DEF RestartForRetry, StartAnalysis, SetStatus, MayStartAnalysis,
     MayRestartAnalysis, MayBecomeReady
<1>9. ASSUME NEW t \in Tasks, NEW retryable \in BOOLEAN, RecordFailure(t, retryable)
      PROVE  ReviewMoves /\ (quote.status \in Approved => quote'.approvedRun = quote.approvedRun)
  <2>1. quote' = [quote EXCEPT !.status = AfterAnalysisFailure(quote.status)]
    BY <1>9 DEF RecordFailure, SetStatus
  <2> QED
    BY <2>1, <1>q DEF AfterAnalysisFailure
<1> QED
  BY <1>1, <1>2, <1>3, <1>4, <1>5, <1>6, <1>7, <1>8, <1>9
  DEF Next, Review, Request, Work, ExtractionWritten

\* No step but the second transaction of an execution completes a run or
\* changes whose items are current, and no step drops a run.
LEMMA RunsStandStill ==
  ASSUME TypeOK, WorkersOwnRuns, [Next]_vars, ~ExtractionWritten
  PROVE  /\ CompletedRuns' = CompletedRuns
         /\ CurrentRuns' = CurrentRuns
         /\ \A s \in RunNumbers :
              /\ s \in RunNumbers'
              /\ runs'[s].document = runs[s].document
              /\ runs'[s].task = runs[s].task
<1>r. \A s \in RunNumbers : runs[s] \in Run
  BY ElementOfSeq DEF TypeOK, RunNumbers
<1> DEFINE Goal == /\ CompletedRuns' = CompletedRuns
                   /\ CurrentRuns' = CurrentRuns
                   /\ \A s \in RunNumbers :
                        /\ s \in RunNumbers'
                        /\ runs'[s].document = runs[s].document
                        /\ runs'[s].task = runs[s].task
<1>1. CASE runs' = runs
  BY <1>1 DEF CompletedRuns, CurrentRuns, RunNumbers
<1>2. ASSUME NEW t \in Tasks, StartAnalysis(t)
      PROVE  Goal
  <2> DEFINE new == [document |-> Len(documents), task |-> t, status |-> "running",
                     items |-> "none", resolved |-> FALSE, approvedSource |-> FALSE]
  <2>1. new \in Run /\ new.items = "none" /\ new.status = "running"
    <3>1. Len(documents) \in Nat \ {0}
      BY EmptySeq DEF TypeOK
    <3> QED
      BY <3>1 DEF Run, RunStatus, ItemStatus
  <2>2. runs' = Append(runs, new)
    BY <1>2 DEF StartAnalysis
  <2> HIDE DEF new
  <2>3. /\ RunNumbers' = RunNumbers \cup {Len(runs) + 1}
        /\ runs'[Len(runs) + 1] = new
        /\ Len(runs) + 1 \notin RunNumbers
        /\ \A s \in RunNumbers : runs'[s] = runs[s]
    BY <2>1, <2>2, RunAppended DEF TypeOK
  <2> QED
    BY <2>1, <2>3 DEF CompletedRuns, CurrentRuns
<1>3. ASSUME NEW t \in Tasks, NEW retryable \in BOOLEAN, RecordFailure(t, retryable)
      PROVE  Goal
  <2>1. /\ RunNumbers' = RunNumbers
        /\ message[t].run \in RunNumbers
        /\ runs[message[t].run].status = "running"
    BY <1>3, FailedRuns
  <2>2. ASSUME NEW s \in RunNumbers
        PROVE  /\ runs'[s].items = runs[s].items
               /\ runs'[s].status = "completed" <=> runs[s].status = "completed"
               /\ runs'[s].document = runs[s].document
               /\ runs'[s].task = runs[s].task
    BY <1>3, <2>1, FailedRuns
  <2> QED
    BY <2>1, <2>2 DEF CompletedRuns, CurrentRuns
<1>4. ASSUME NEW r \in RunNumbers, EditItem(r) \/ ApproveQuote(r)
      PROVE  Goal
  <2>1. RunNumbers' = RunNumbers
    BY <1>4, EditedRuns, ApprovedRuns
  <2>2. ASSUME NEW s \in RunNumbers
        PROVE  /\ runs'[s].items = runs[s].items
               /\ runs'[s].status = runs[s].status
               /\ runs'[s].document = runs[s].document
               /\ runs'[s].task = runs[s].task
    <3>1. runs[s] \in Run
      BY <1>r
    <3>2. runs'[s] \in {runs[s], [runs[s] EXCEPT !.resolved = TRUE],
                        [runs[s] EXCEPT !.approvedSource = TRUE]}
      BY <1>4, EditedRuns, ApprovedRuns
    <3> QED
      BY <3>1, <3>2 DEF Run
  <2> QED
    BY <2>1, <2>2 DEF CompletedRuns, CurrentRuns
<1>5. \/ runs' = runs
      \/ \E t \in Tasks : StartAnalysis(t)
      \/ \E t \in Tasks, retryable \in BOOLEAN : RecordFailure(t, retryable)
      \/ \E r \in RunNumbers : EditItem(r) \/ ApproveQuote(r)
  BY DEF Next, Reception, Review, Request, Work, ExtractionWritten, UploadMarksReady, UploadEnds,
     AddDocument, RejectQuote, IncludeInComparison, RequestAnalysis, RequestReanalysis,
     RequestProcessing, RequestReprocessing, CreateTask, Publish, PublishFails, RequestDies,
     RestartForRetry, ReuseCompletedRun, RefuseAnalysis, AnalysisRaises, RetryTask,
     Acknowledge, AiServiceMissing, WorkerCrash, vars
<1> QED
  BY <1>1, <1>2, <1>3, <1>4, <1>5

\* The second transaction of an execution presents a run that never was.
LEMMA ExtractionIsNew ==
  ASSUME Inv, NEW t \in Tasks, NEW resolved \in BOOLEAN, PersistAnalysis(t, resolved)
  PROVE  /\ quote.status = "analyzing"
         /\ quote'.status = "pending_review"
         /\ message[t].run \in RunNumbers \ CompletedRuns
         /\ CompletedRuns' = CompletedRuns \cup {message[t].run}
         /\ CurrentRuns' = {message[t].run}
         /\ runs[message[t].run].task = t
         /\ \A s \in RunNumbers :
              /\ s \in RunNumbers'
              /\ runs'[s].document = runs[s].document
              /\ runs'[s].task = runs[s].task
<1>1. quote.status = "analyzing" /\ quote'.status = "pending_review"
  BY DEF PersistAnalysis, SetStatus, Inv, TypeOK
<1>2. /\ RunNumbers' = RunNumbers
      /\ message[t].run \in RunNumbers
      /\ runs'[message[t].run].status = "completed"
      /\ runs'[message[t].run].items = "current"
  BY PersistedRuns DEF Inv
<1>3. ASSUME NEW s \in RunNumbers
      PROVE  /\ runs'[s].document = runs[s].document
             /\ runs'[s].task = runs[s].task
             /\ s # message[t].run =>
                  runs'[s].status = runs[s].status /\ runs'[s].items # "current"
  BY PersistedRuns DEF Inv
<1>4. runs[message[t].run].status = "running" /\ runs[message[t].run].task = t
  BY OwnedRunExists DEF Inv, PersistAnalysis, MoveMessage
<1> QED
  BY <1>1, <1>2, <1>3, <1>4 DEF CompletedRuns, CurrentRuns

-----------------------------------------------------------------------------
(* What no step may do *)

\* No late worker, redelivery, retry, reanalysis or publication failure takes
\* an approval back or touches what was approved.
THEOREM ApprovalsAreFinal == Spec => ApprovalIsFinal
<1>1. Inv /\ [Next]_vars => [quote.status \in Approved =>
                               /\ quote'.status \in Approved
                               /\ quote'.approvedRun = quote.approvedRun
                               /\ CurrentRuns' = CurrentRuns]_vars
  <2> SUFFICES ASSUME Inv, [Next]_vars, quote.status \in Approved
               PROVE  /\ quote'.status \in Approved
                      /\ quote'.approvedRun = quote.approvedRun
                      /\ CurrentRuns' = CurrentRuns
    OBVIOUS
  <2>1. ~ExtractionWritten
    BY ExtractionIsNew DEF ExtractionWritten, Approved
  <2>2. ReviewMoves /\ quote'.approvedRun = quote.approvedRun
    BY <2>1, ReviewMovesAlone DEF Inv
  <2>3. CurrentRuns' = CurrentRuns
    BY <2>1, RunsStandStill DEF Inv
  <2>4. quote'.status \in Approved
    BY <2>2 DEF ReviewMoves, Phase, Approved
  <2> QED
    BY <2>2, <2>3, <2>4
<1> QED
  BY <1>1, Invariance, PTL DEF Spec, ApprovalIsFinal

\* A completed run is never failed, emptied or moved to another document.
THEOREM HistoryIsKept == Spec => CompletedRunsAreKept
<1> DEFINE Kept == \A r \in RunNumbers : runs[r].status = "completed" =>
                     /\ r \in RunNumbers'
                     /\ runs'[r].status = "completed"
                     /\ runs'[r].items # "none"
                     /\ runs'[r].document = runs[r].document
<1>1. Inv /\ [Next]_vars => [Kept]_vars
  <2> SUFFICES ASSUME Inv, [Next]_vars, NEW r \in RunNumbers, runs[r].status = "completed"
               PROVE  /\ r \in RunNumbers'
                      /\ runs'[r].status = "completed"
                      /\ runs'[r].items # "none"
                      /\ runs'[r].document = runs[r].document
    OBVIOUS
  <2>1. /\ r \in RunNumbers' /\ runs'[r].document = runs[r].document
        /\ CompletedRuns \subseteq CompletedRuns'
    <3>1. CASE ExtractionWritten
      BY <3>1, ExtractionIsNew DEF ExtractionWritten
    <3>2. CASE ~ExtractionWritten
      BY <3>2, RunsStandStill DEF Inv
    <3> QED
      BY <3>1, <3>2
  <2>2. runs'[r].status = "completed"
    BY <2>1 DEF CompletedRuns
  <2>3. Inv'
    BY InvStep
  <2>4. runs'[r].items # "none"
    BY <2>1, <2>2, <2>3 DEF Inv, OneCurrentExtraction
  <2> QED
    BY <2>1, <2>2, <2>4
<1> QED
  BY <1>1, Invariance, PTL DEF Spec, CompletedRunsAreKept

-----------------------------------------------------------------------------
(* Tasks, messages and the runs they leave *)

\* How a step other than an extraction changes the task rows: a request fills
\* one in, or a row gets another status.
LEMMA TaskRowsMove ==
  ASSUME [Next]_vars, ~ExtractionWritten
  PROVE  \/ task' = task
         \/ \E t \in Tasks, route \in Routes : CreateTask(t, route)
         \/ \E t \in Tasks, status \in {"retry_pending", "running", "failed"} :
              task' = [task EXCEPT ![t].status = status]
<1> DEFINE Moves == \/ task' = task
                    \/ \E t \in Tasks, route \in Routes : CreateTask(t, route)
                    \/ \E t \in Tasks, status \in {"retry_pending", "running", "failed"} :
                         task' = [task EXCEPT ![t].status = status]
<1>1. CASE Reception \/ Review \/ UNCHANGED vars
  BY <1>1 DEF Reception, UploadMarksReady, UploadEnds, AddDocument, Review, EditItem,
     ApproveQuote, RejectQuote, IncludeInComparison, vars
<1>2. ASSUME NEW t \in Tasks,
             \/ RequestAnalysis(t) \/ RequestReanalysis(t) \/ RequestProcessing(t)
             \/ RequestReprocessing(t)
      PROVE  Moves
  <2>1. \E route \in {"analyze", "reanalyze", "process", "reprocess"} : CreateTask(t, route)
    BY <1>2 DEF RequestAnalysis, RequestReanalysis, RequestProcessing, RequestReprocessing
  <2>2. \E route \in Routes : CreateTask(t, route)
    BY <2>1 DEF CreateTask
  <2> QED
    BY <2>2
<1>3. ASSUME NEW t \in Tasks,
             \/ Publish(t) \/ PublishFails(t) \/ RequestDies(t) \/ AiServiceMissing(t)
             \/ WorkerCrash(t)
      PROVE  Moves
  BY <1>3 DEF Publish, PublishFails, RequestDies, AiServiceMissing, WorkerCrash
<1>4. ASSUME NEW t \in Tasks, Work(t)
      PROVE  Moves
  <2>1. ASSUME NEW retryable \in BOOLEAN, RecordFailure(t, retryable)
        PROVE  Moves
    BY <2>1 DEF RecordFailure
  <2>2. CASE StartAnalysis(t)
    BY <2>2 DEF StartAnalysis
  <2>3. CASE \/ RestartForRetry(t) \/ ReuseCompletedRun(t) \/ RefuseAnalysis(t)
             \/ AnalysisRaises(t) \/ RetryTask(t) \/ Acknowledge(t)
    BY <2>3 DEF RestartForRetry, ReuseCompletedRun, RefuseAnalysis, AnalysisRaises,
       RetryTask, Acknowledge
  <2> QED
    BY <1>4, <2>1, <2>2, <2>3 DEF Work, ExtractionWritten
<1> QED
  BY <1>1, <1>2, <1>3, <1>4 DEF Next, Request

\* A task row says "succeeded" only where its run is completed: no failure,
\* retry or redelivery separates the two, which one transaction writes.
THEOREM SuccessIsShown == Spec => []SucceededTasksHaveRuns
<1>1. Init => SucceededTasksHaveRuns
  BY DEF Init, SucceededTasksHaveRuns
<1>2. Inv /\ SucceededTasksHaveRuns /\ [Next]_vars => SucceededTasksHaveRuns'
  <2> SUFFICES ASSUME Inv, SucceededTasksHaveRuns, [Next]_vars,
                      NEW u \in Tasks, task'[u].status = "succeeded"
               PROVE  \E r \in RunNumbers' : runs'[r].task = u /\ runs'[r].status = "completed"
    BY DEF SucceededTasksHaveRuns
  <2>t. task \in [Tasks -> [route : AllRoutes, status : TaskStatus]]
    BY DEF Inv, TypeOK
  <2>1. CASE ExtractionWritten
    <3>1. PICK t \in Tasks, resolved \in BOOLEAN : PersistAnalysis(t, resolved)
      BY <2>1 DEF ExtractionWritten
    <3>2. /\ message[t].run \in RunNumbers
          /\ runs[message[t].run].task = t
          /\ CompletedRuns' = CompletedRuns \cup {message[t].run}
          /\ \A s \in RunNumbers : s \in RunNumbers' /\ runs'[s].task = runs[s].task
      BY <3>1, ExtractionIsNew
    <3>3. CASE u = t
      BY <3>2, <3>3 DEF CompletedRuns
    <3>4. CASE u # t
      <4>1. task[u].status = "succeeded"
        BY <3>1, <3>4, <2>t DEF PersistAnalysis
      <4> QED
        BY <3>2, <4>1 DEF SucceededTasksHaveRuns, CompletedRuns
    <3> QED
      BY <3>3, <3>4
  <2>2. CASE ~ExtractionWritten
    <3>1. task[u].status = "succeeded"
      <4>1. CASE \E t \in Tasks, route \in Routes : CreateTask(t, route)
        BY <4>1, <2>t DEF CreateTask
      <4>2. CASE \E t \in Tasks, status \in {"retry_pending", "running", "failed"} :
                   task' = [task EXCEPT ![t].status = status]
        BY <4>2, <2>t
      <4> QED
        BY <2>2, <4>1, <4>2, TaskRowsMove
    <3>2. /\ CompletedRuns' = CompletedRuns
          /\ \A s \in RunNumbers : s \in RunNumbers' /\ runs'[s].task = runs[s].task
      BY <2>2, RunsStandStill DEF Inv
    <3> QED
      BY <3>1, <3>2 DEF SucceededTasksHaveRuns, CompletedRuns
  <2> QED
    BY <2>1, <2>2
<1> QED
  BY <1>1, <1>2, Invariance, PTL DEF Spec

-----------------------------------------------------------------------------
(* Who attends an analysis *)

\* No task is an explicit reanalysis.
NoneForced == \A t \in Tasks : ~Forced(task[t].route)

\* A task that nobody requested yet is not one.
UnrequestedInv ==
  \A t \in Tasks : message[t].place = "none" => ~Forced(task[t].route)

\* A task row gets its route when the task is requested, and keeps it.
LEMMA RouteIsKept ==
  ASSUME Inv, [Next]_vars, NEW u \in Tasks
  PROVE  \/ task'[u].route = task[u].route
         \/ \E route \in Routes : CreateTask(u, route)
<1>t. task \in [Tasks -> [route : AllRoutes, status : TaskStatus]]
  BY DEF Inv, TypeOK
<1>1. CASE ExtractionWritten
  <2>1. \E t \in Tasks : task' = [task EXCEPT ![t].status = "succeeded"]
    BY <1>1 DEF ExtractionWritten, PersistAnalysis
  <2> QED
    BY <1>t, <2>1
<1>2. CASE \E t \in Tasks, route \in Routes : CreateTask(t, route)
  <2>1. PICK t \in Tasks, route \in Routes : CreateTask(t, route)
    BY <1>2
  <2>2. CASE t # u
    BY <1>t, <2>1, <2>2 DEF CreateTask
  <2> QED
    BY <2>1, <2>2
<1>3. CASE \E t \in Tasks, status \in {"retry_pending", "running", "failed"} :
              task' = [task EXCEPT ![t].status = status]
  BY <1>3, <1>t
<1> QED
  BY <1>1, <1>2, <1>3, TaskRowsMove

\* The route a request writes is one of the routes in use.
LEMMA RoutesStay ==
  ASSUME Inv, [Next]_vars, NEW u \in Tasks
  PROVE  task'[u].route \in {task[u].route} \cup Routes
<1>1. ASSUME NEW route \in Routes, CreateTask(u, route)
      PROVE  task'[u].route = route
  BY <1>1 DEF CreateTask, Inv, TypeOK
<1> QED
  BY <1>1, RouteIsKept

\* A task that was an explicit reanalysis stays one.
LEMMA ForcedIsForever ==
  ASSUME Inv, UnrequestedInv, [Next]_vars
  PROVE  UnrequestedInv' /\ (NoneForced' => NoneForced)
<1> DEFINE Msg == [Tasks -> [place : Place, retries : Nat, run : Nat]]
<1>m. message \in Msg
  BY DEF Inv, TypeOK
<1> HIDE DEF Msg
<1>1. ASSUME NEW u \in Tasks, ~\E route \in Routes : CreateTask(u, route)
      PROVE  task'[u].route = task[u].route
  BY <1>1, RouteIsKept
<1>2. ASSUME NEW u \in Tasks, NEW route \in Routes, CreateTask(u, route)
      PROVE  message[u].place = "none" /\ message'[u].place = "requested"
  BY <1>2, <1>m DEF CreateTask, MoveMessage, Msg
<1>3. ASSUME NEW u \in Tasks, message[u].place # "none"
      PROVE  message'[u].place # "none"
  <2>1. CASE message' = message
    BY <1>3, <2>1
  <2>2. ASSUME NEW t \in Tasks, NEW p \in Place \ {"none"},
               message' = [message EXCEPT ![t].place = p]
        PROVE  message'[u].place # "none"
    BY <1>3, <2>2, <1>m DEF Msg
  <2>3. ASSUME NEW t \in Tasks,
               StartAnalysis(t) \/ RetryTask(t) \/ Acknowledge(t) \/ WorkerCrash(t)
        PROVE  message'[u].place # "none"
    <3>1. CASE StartAnalysis(t)
      <4>1. PICK n : n = Len(runs) + 1
        OBVIOUS
      <4>2. message' = [message EXCEPT ![t] = [@ EXCEPT !.place = "extracting", !.run = n]]
        BY <3>1, <4>1 DEF StartAnalysis
      <4> QED
        BY <1>3, <4>2, <1>m DEF Msg
    <3>2. CASE RetryTask(t)
      BY <1>3, <3>2, <1>m DEF RetryTask, Msg
    <3>3. CASE Acknowledge(t) \/ WorkerCrash(t)
      BY <1>3, <3>3, <1>m DEF Acknowledge, WorkerCrash, Msg
    <3> QED
      BY <2>3, <3>1, <3>2, <3>3
  <2>4. CASE Reception \/ Review \/ UNCHANGED vars
    BY <2>1, <2>4 DEF Reception, UploadMarksReady, UploadEnds, AddDocument, Review, EditItem,
       ApproveQuote, RejectQuote, IncludeInComparison, vars
  <2>5. ASSUME NEW t \in Tasks, Request(t) \/ AiServiceMissing(t)
        PROVE  message'[u].place # "none"
    <3>1. \E p \in {"requested", "queued", "gone", "retrying"} :
            message' = [message EXCEPT ![t].place = p]
      BY <2>5 DEF Request, RequestAnalysis, RequestReanalysis, RequestProcessing,
         RequestReprocessing, CreateTask, Publish, PublishFails, RequestDies,
         AiServiceMissing, MoveMessage, LeaveFor
    <3> QED
      BY <2>2, <3>1 DEF Place
  <2>6. ASSUME NEW t \in Tasks, NEW retryable \in BOOLEAN, NEW resolved \in BOOLEAN,
               \/ RestartForRetry(t) \/ ReuseCompletedRun(t) \/ RefuseAnalysis(t)
               \/ AnalysisRaises(t) \/ PersistAnalysis(t, resolved) \/ RecordFailure(t, retryable)
        PROVE  message'[u].place # "none"
    <3>1. \E p \in {"restarted", "returned", "raising", "retrying"} :
            message' = [message EXCEPT ![t].place = p]
      BY <2>6 DEF RestartForRetry, ReuseCompletedRun, RefuseAnalysis, AnalysisRaises,
         PersistAnalysis, RecordFailure, MoveMessage, LeaveFor
    <3> QED
      BY <2>2, <3>1 DEF Place
  <2> QED
    BY <2>3, <2>4, <2>5, <2>6 DEF Next, Work
<1>4. UnrequestedInv'
  BY <1>1, <1>2, <1>3 DEF UnrequestedInv
<1>5. ASSUME NoneForced'
      PROVE  NoneForced
  <2> SUFFICES ASSUME NEW u \in Tasks
               PROVE  ~Forced(task[u].route)
    BY DEF NoneForced
  <2>1. CASE \E route \in Routes : CreateTask(u, route)
    BY <1>2, <2>1 DEF UnrequestedInv
  <2>2. CASE ~\E route \in Routes : CreateTask(u, route)
    BY <1>1, <1>5, <2>2 DEF NoneForced
  <2> QED
    BY <2>1, <2>2
<1> QED
  BY <1>4, <1>5

\* A worker is between the transactions of an execution.
Working == {"extracting", "raising"}

\* A message that still brings a worker to the quote.
Coming == {"queued", "restarted"} \cup Working

\* While the quote is analyzed and nothing was forced, its latest document has
\* no usable run: the worker that comes will not answer from one.
FreshInv == NoneForced /\ quote.status = "analyzing" => ReusableFor(Len(documents)) = {}

\* Who attends the analysis: until a worker dies, a worker that is executing;
\* after a death, under the conditions of AnalyzingIsAttended, a message that
\* will execute again.
AttendedInv ==
  quote.status = "analyzing" =>
    /\ crashes = 0 => \E t \in Tasks : message[t].place \in Working
    /\ ~KeyMayMiss /\ NoneForced => \E t \in Tasks : message[t].place \in Coming

\* The runs that answer for a document are its completed ones.
LEMMA ReusableIsCompleted ==
  ASSUME Inv, NEW d
  PROVE  ReusableFor(d) = {r \in CompletedRuns : runs[r].document = d}
BY DEF Inv, OneCurrentExtraction, ReusableFor, Usable, CompletedRuns

\* A step that leaves the quote in "analyzing" without starting an analysis
\* found it there, and takes no attendant away.
LEMMA AttendantsStay ==
  ASSUME Inv, FreshInv, [Next]_vars, quote'.status = "analyzing",
         \A t \in Tasks : ~StartAnalysis(t)
  PROVE  /\ quote.status = "analyzing"
         /\ crashes' = 0 =>
              /\ crashes = 0
              /\ \A u \in Tasks : message[u].place \in Working => message'[u].place \in Working
         /\ ~KeyMayMiss /\ NoneForced =>
              \A u \in Tasks : message[u].place \in Coming => message'[u].place \in Coming
<1> DEFINE Msg == [Tasks -> [place : Place, retries : Nat, run : Nat]]
           Goal == /\ quote.status = "analyzing"
                   /\ crashes' = 0 =>
                        /\ crashes = 0
                        /\ \A u \in Tasks :
                             message[u].place \in Working => message'[u].place \in Working
                   /\ ~KeyMayMiss /\ NoneForced =>
                        \A u \in Tasks :
                          message[u].place \in Coming => message'[u].place \in Coming
<1>m. message \in Msg
  BY DEF Inv, TypeOK
<1>q. quote \in [status : QuoteStatus, approvedRun : Nat] /\ crashes \in Nat
  BY DEF Inv, TypeOK
<1> HIDE DEF Msg
<1>1. ASSUME quote.status = "analyzing", crashes' = crashes, message' = message
      PROVE  Goal
  BY <1>1
<1>2. ASSUME quote.status = "analyzing", crashes' = crashes,
             NEW t \in Tasks, NEW p \in Place,
             message[t].place \in Working => p \in Working,
             message[t].place \in Coming => p \in Coming,
             message' = [message EXCEPT ![t].place = p]
      PROVE  Goal
  BY <1>2, <1>m DEF Msg
<1>3. CASE Reception \/ Review \/ UNCHANGED vars
  <2>1. crashes' = crashes /\ message' = message
    BY <1>3 DEF Reception, UploadMarksReady, UploadEnds, AddDocument, Review, EditItem,
       ApproveQuote, RejectQuote, IncludeInComparison, vars
  <2>2. quote.status = "analyzing"
    BY <1>3, <1>q DEF Reception, UploadMarksReady, UploadEnds, AddDocument, Review, EditItem,
       ApproveQuote, RejectQuote, IncludeInComparison, SetStatus, vars
  <2> QED
    BY <1>1, <2>1, <2>2
<1>4. ASSUME NEW t \in Tasks,
             \/ RequestAnalysis(t) \/ RequestReanalysis(t) \/ RequestProcessing(t)
             \/ RequestReprocessing(t)
      PROVE  FALSE
  BY <1>4, <1>q DEF RequestAnalysis, RequestReanalysis, RequestProcessing,
     RequestReprocessing, SetStatus
<1>5. ASSUME NEW t \in Tasks, Publish(t) \/ PublishFails(t) \/ RequestDies(t)
      PROVE  Goal
  <2>1. message[t].place = "requested" /\ crashes' = crashes
        /\ \E p \in {"queued", "gone"} : message' = [message EXCEPT ![t].place = p]
    BY <1>5 DEF Publish, PublishFails, RequestDies, MoveMessage
  <2>2. quote.status = "analyzing"
    <3>1. CASE PublishFails(t)
      <4>1. \/ quote' = quote
            \/ quote' = [quote EXCEPT !.status = "failed"]
            \/ quote' = [quote EXCEPT !.status = AfterAnalysisFailure(quote.status)]
        BY <3>1 DEF PublishFails, SetStatus
      <4> QED
        BY <4>1, <1>q DEF AfterAnalysisFailure, Approved
    <3> QED
      BY <1>5, <3>1 DEF Publish, RequestDies
  <2> QED
    BY <1>2, <2>1, <2>2 DEF Place, Working, Coming
<1>6. ASSUME NEW t \in Tasks, RestartForRetry(t)
      PROVE  Goal
  <2>1. /\ message[t].place = "queued"
        /\ message' = [message EXCEPT ![t].place = "restarted"]
        /\ crashes' = crashes
    BY <1>6 DEF RestartForRetry, MoveMessage
  <2>2. quote.status = "analyzing"
    BY <1>6, <1>q DEF RestartForRetry, SetStatus
  <2> QED
    BY <1>2, <2>1, <2>2 DEF Place, Working, Coming
<1>7. ASSUME NEW t \in Tasks,
             ReuseCompletedRun(t) \/ RefuseAnalysis(t) \/ AiServiceMissing(t)
      PROVE  Goal
  <2>1. /\ message[t].place \in {"queued", "restarted"}
        /\ crashes' = crashes
        /\ \E p \in {"returned", "retrying"} : message' = [message EXCEPT ![t].place = p]
        /\ quote.status = "analyzing"
    BY <1>7 DEF ReuseCompletedRun, RefuseAnalysis, AiServiceMissing, AtExecute, LeaveFor
  <2>2. ~KeyMayMiss /\ NoneForced => FALSE
    BY <1>7, <2>1 DEF ReuseCompletedRun, RefuseAnalysis, AiServiceMissing, NoneForced,
       FreshInv, MayReuse, MayStartAnalysis
  <2>3. \A u \in Tasks : message[u].place \in Working => message'[u].place \in Working
    BY <2>1, <1>m DEF Msg, Working
  <2> QED
    BY <2>1, <2>2, <2>3
<1>8. ASSUME NEW t \in Tasks, NEW resolved \in BOOLEAN, PersistAnalysis(t, resolved)
      PROVE  FALSE
  BY <1>8, <1>q DEF PersistAnalysis, SetStatus
<1>9. ASSUME NEW t \in Tasks, AnalysisRaises(t)
      PROVE  Goal
  <2>1. /\ message' = [message EXCEPT ![t].place = "raising"]
        /\ crashes' = crashes
        /\ quote.status = "analyzing"
    BY <1>9 DEF AnalysisRaises, MoveMessage
  <2> QED
    BY <1>2, <2>1 DEF Place, Working, Coming
<1>10. ASSUME NEW t \in Tasks, NEW retryable \in BOOLEAN, RecordFailure(t, retryable)
       PROVE  FALSE
  <2>1. quote'.status = AfterAnalysisFailure(quote.status)
    BY <1>10, <1>q DEF RecordFailure, SetStatus
  <2> QED
    BY <2>1 DEF AfterAnalysisFailure, Approved
<1>11. ASSUME NEW t \in Tasks, RetryTask(t) \/ Acknowledge(t)
       PROVE  Goal
  <2>1. /\ message[t].place \in {"retrying", "returned"}
        /\ crashes' = crashes
        /\ quote.status = "analyzing"
    BY <1>11 DEF RetryTask, Acknowledge
  <2>2. \A u \in Tasks \ {t} : message'[u] = message[u]
    BY <1>11, <1>m DEF RetryTask, Acknowledge, Msg
  <2> QED
    BY <2>1, <2>2 DEF Working, Coming
<1>12. ASSUME NEW t \in Tasks, WorkerCrash(t)
       PROVE  Goal
  <2>1. crashes' # 0 /\ quote.status = "analyzing"
    BY <1>12, <1>q DEF WorkerCrash
  <2>2. /\ \A u \in Tasks \ {t} : message'[u] = message[u]
        /\ message'[t].place = "queued"
    BY <1>12, <1>m DEF WorkerCrash, Msg
  <2> QED
    BY <2>1, <2>2 DEF Coming
<1> QED
  BY <1>3, <1>4, <1>5, <1>6, <1>7, <1>8, <1>9, <1>10, <1>11, <1>12 DEF Next, Request, Work

\* Only AddDocument changes how many documents the quote has.
LEMMA DocumentsStay ==
  ASSUME TypeOK, WorkersOwnRuns, [Next]_vars, ~AddDocument
  PROVE  Len(documents') = Len(documents)
<1>1. CASE documents' = documents
  BY <1>1
<1>2. ASSUME NEW t \in Tasks, StartAnalysis(t)
      PROVE  Len(documents') = Len(documents)
  <2>1. Len(documents) \in Nat \ {0}
    BY EmptySeq DEF TypeOK
  <2>2. AfterStart(documents[Len(documents)]) \in DocumentStatus
    BY <2>1, ElementOfSeq DEF TypeOK, AfterStart, DocumentStatus
  <2> QED
    BY <1>2, <2>1, <2>2, DocumentReplaced DEF StartAnalysis, TypeOK
<1>3. ASSUME NEW t \in Tasks, NEW resolved \in BOOLEAN, NEW retryable \in BOOLEAN,
             PersistAnalysis(t, resolved) \/ RecordFailure(t, retryable)
      PROVE  Len(documents') = Len(documents)
  <2>1. runs[message[t].run].document \in 1..Len(documents)
    BY <1>3, OwnedRunExists DEF PersistAnalysis, RecordFailure, MoveMessage
  <2>2. \E e \in DocumentStatus :
          documents' = [documents EXCEPT ![runs[message[t].run].document] = e]
    BY <1>3 DEF PersistAnalysis, RecordFailure, DocumentStatus
  <2> QED
    BY <2>1, <2>2, DocumentReplaced DEF TypeOK
<1>4. \/ documents' = documents
      \/ \E t \in Tasks : StartAnalysis(t)
      \/ \E t \in Tasks, resolved \in BOOLEAN : PersistAnalysis(t, resolved)
      \/ \E t \in Tasks, retryable \in BOOLEAN : RecordFailure(t, retryable)
  BY DEF Next, Reception, Review, Request, Work, UploadMarksReady, UploadEnds,
     EditItem, ApproveQuote, RejectQuote, IncludeInComparison, RequestAnalysis,
     RequestReanalysis, RequestProcessing, RequestReprocessing, CreateTask, Publish,
     PublishFails, RequestDies, RestartForRetry, ReuseCompletedRun, RefuseAnalysis,
     AnalysisRaises, RetryTask, Acknowledge, AiServiceMissing, WorkerCrash, vars
<1> QED
  BY <1>1, <1>2, <1>3, <1>4

\* A document that is added has no runs.
LEMMA AddedDocumentIsUnread ==
  ASSUME Inv, AddDocument
  PROVE  /\ quote' = quote /\ runs' = runs
         /\ \A r \in RunNumbers : runs[r].document # Len(documents')
<1>1. Len(documents) \in Nat /\ Len(documents') = Len(documents) + 1
  BY LenProperties, AppendProperties DEF AddDocument, Inv, TypeOK, DocumentStatus
<1>2. \A r \in RunNumbers : runs[r].document \in 1..Len(documents)
  BY DEF Inv, TypeOK
<1> QED
  BY <1>1, <1>2 DEF AddDocument

\* At most one completed run read the latest document, unless it was forced.
LatestOnceInv ==
  NoneForced =>
    \A r, s \in CompletedRuns :
      runs[r].document = Len(documents) /\ runs[s].document = Len(documents) => r = s

AttendanceInv ==
  /\ UnrequestedInv
  /\ FreshInv
  /\ AttendedInv
  /\ LatestOnceInv

LEMMA FreshPreserved ==
  ASSUME Inv, UnrequestedInv, FreshInv, [Next]_vars
  PROVE  FreshInv'
<1> SUFFICES ASSUME NoneForced', quote'.status = "analyzing"
             PROVE  \A r \in CompletedRuns' : runs'[r].document # Len(documents')
  <2>1. Inv'
    BY InvStep
  <2>2. ReusableFor(Len(documents))' = {r \in CompletedRuns' : runs'[r].document = Len(documents')}
    BY <2>1 DEF Inv, OneCurrentExtraction, ReusableFor, Usable, CompletedRuns
  <2> QED
    BY <2>2 DEF FreshInv
<1>1. NoneForced
  BY ForcedIsForever
<1>2. ~ExtractionWritten
  BY ExtractionIsNew DEF ExtractionWritten
<1>3. /\ CompletedRuns' = CompletedRuns
      /\ \A s \in CompletedRuns : runs'[s].document = runs[s].document
  BY <1>2, RunsStandStill DEF Inv, CompletedRuns
<1>4. CASE AddDocument
  BY <1>3, <1>4, AddedDocumentIsUnread DEF CompletedRuns
<1>5. CASE ~AddDocument
  <2>1. ReusableFor(Len(documents)) = {}
    <3>1. ASSUME NEW t \in Tasks, StartAnalysis(t)
          PROVE  ReusableFor(Len(documents)) = {}
      BY <1>1, <3>1 DEF StartAnalysis, MayReuse, NoneForced
    <3>2. CASE \A t \in Tasks : ~StartAnalysis(t)
      BY <1>1, <3>2, AttendantsStay DEF FreshInv
    <3> QED
      BY <3>1, <3>2
  <2>2. Len(documents') = Len(documents)
    BY <1>5, DocumentsStay DEF Inv
  <2> QED
    BY <1>3, <2>1, <2>2, ReusableIsCompleted
<1> QED
  BY <1>4, <1>5

LEMMA AttendedPreserved ==
  ASSUME Inv, UnrequestedInv, FreshInv, AttendedInv, [Next]_vars
  PROVE  AttendedInv'
<1> SUFFICES ASSUME quote'.status = "analyzing"
             PROVE  /\ crashes' = 0 => \E t \in Tasks : message'[t].place \in Working
                    /\ ~KeyMayMiss /\ NoneForced' => \E t \in Tasks : message'[t].place \in Coming
  BY DEF AttendedInv
<1>1. ASSUME NEW t \in Tasks, StartAnalysis(t)
      PROVE  message'[t].place = "extracting"
  <2>1. PICK n : n = Len(runs) + 1
    OBVIOUS
  <2>2. message' = [message EXCEPT ![t] = [@ EXCEPT !.place = "extracting", !.run = n]]
    BY <1>1, <2>1 DEF StartAnalysis
  <2> QED
    BY <2>2 DEF Inv, TypeOK
<1>2. CASE \A t \in Tasks : ~StartAnalysis(t)
  BY <1>2, AttendantsStay, ForcedIsForever DEF AttendedInv
<1> QED
  BY <1>1, <1>2 DEF Working, Coming

LEMMA LatestOncePreserved ==
  ASSUME Inv, UnrequestedInv, FreshInv, LatestOnceInv, [Next]_vars
  PROVE  LatestOnceInv'
<1> SUFFICES ASSUME NoneForced', NEW r \in CompletedRuns', NEW s \in CompletedRuns',
                    runs'[r].document = Len(documents'), runs'[s].document = Len(documents')
             PROVE  r = s
  BY DEF LatestOnceInv
<1>1. NoneForced
  BY ForcedIsForever
<1>2. ASSUME NEW t \in Tasks, NEW resolved \in BOOLEAN, PersistAnalysis(t, resolved)
      PROVE  r = s
  <2>1. /\ quote.status = "analyzing"
        /\ CompletedRuns' = CompletedRuns \cup {message[t].run}
        /\ \A i \in CompletedRuns : runs'[i].document = runs[i].document
    BY <1>2, ExtractionIsNew DEF CompletedRuns
  <2>2. ~AddDocument
    BY <1>2, <2>1, ExtractionIsNew, AddedDocumentIsUnread
  <2>3. Len(documents') = Len(documents)
    BY <2>2, DocumentsStay DEF Inv
  <2>4. \A i \in CompletedRuns : runs[i].document # Len(documents)
    BY <1>1, <2>1, ReusableIsCompleted DEF FreshInv
  <2> QED
    BY <2>1, <2>3, <2>4
<1>3. CASE ~ExtractionWritten
  <2>1. /\ CompletedRuns' = CompletedRuns
        /\ \A i \in CompletedRuns : runs'[i].document = runs[i].document
    BY <1>3, RunsStandStill DEF Inv, CompletedRuns
  <2>2. CASE AddDocument
    BY <2>1, <2>2, AddedDocumentIsUnread DEF CompletedRuns
  <2>3. CASE ~AddDocument
    <3>1. Len(documents') = Len(documents)
      BY <2>3, DocumentsStay DEF Inv
    <3> QED
      BY <1>1, <2>1, <3>1 DEF LatestOnceInv
  <2> QED
    BY <2>2, <2>3
<1> QED
  BY <1>2, <1>3 DEF ExtractionWritten

THEOREM AttendanceInvariance == Spec => []AttendanceInv
<1>1. Init => AttendanceInv
  BY DEF Init, AttendanceInv, UnrequestedInv, FreshInv, AttendedInv, LatestOnceInv, Forced,
     CompletedRuns, RunNumbers
<1>2. Inv /\ AttendanceInv /\ [Next]_vars => AttendanceInv'
  BY ForcedIsForever, FreshPreserved, AttendedPreserved, LatestOncePreserved DEF AttendanceInv
<1> QED
  BY <1>1, <1>2, Invariance, PTL DEF Spec

\* No order of failures, duplicates and redeliveries strands a quote in
\* "analyzing": a message is left that brings a worker to it.
THEOREM AnalysesAreAttended == Spec => []AnalyzingIsAttended
<1>1. AttendanceInv => AnalyzingIsAttended
  BY DEF AttendanceInv, AttendedInv, AnalyzingIsAttended, NoneForced, Working, Coming, AtWorker
<1> QED
  BY <1>1, AttendanceInvariance, PTL

-----------------------------------------------------------------------------
(* How often a request, and a document, is analyzed to completion *)

\* As long as no worker died, the message of a request that completed a run
\* does not execute again.
SettledInv ==
  crashes = 0 => \A r \in CompletedRuns : message[runs[r].task].place \in {"returned", "gone"}

OncePerRequest == OneCompletedRunPerRequest /\ SettledInv

\* No step takes the death of a worker back.
LEMMA DeathsCount ==
  ASSUME TypeOK, [Next]_vars, crashes' = 0
  PROVE  crashes = 0
<1>1. ASSUME NEW t \in Tasks, WorkerCrash(t)
      PROVE  FALSE
  <2>1. crashes \in Nat /\ crashes' = crashes + 1
    BY <1>1 DEF TypeOK, WorkerCrash
  <2> QED
    BY <2>1
<1>2. CASE Reception \/ Review \/ UNCHANGED vars
  BY <1>2 DEF Reception, UploadMarksReady, UploadEnds, AddDocument, Review, EditItem,
     ApproveQuote, RejectQuote, IncludeInComparison, vars
<1>3. ASSUME NEW t \in Tasks, Request(t) \/ AiServiceMissing(t)
      PROVE  crashes' = crashes
  BY <1>3 DEF Request, RequestAnalysis, RequestReanalysis, RequestProcessing,
     RequestReprocessing, CreateTask, Publish, PublishFails, RequestDies, AiServiceMissing
<1>4. ASSUME NEW t \in Tasks, Work(t)
      PROVE  crashes' = crashes
  BY <1>4 DEF Work, RestartForRetry, ReuseCompletedRun, RefuseAnalysis, StartAnalysis,
     PersistAnalysis, AnalysisRaises, RecordFailure, RetryTask, Acknowledge
<1> QED
  BY <1>1, <1>2, <1>3, <1>4 DEF Next

\* A message that returned is acknowledged, or its worker dies.
LEMMA SettledStays ==
  ASSUME Inv, [Next]_vars, NEW u \in Tasks, message[u].place \in {"returned", "gone"},
         crashes' = 0
  PROVE  crashes = 0 /\ message'[u].place \in {"returned", "gone"}
<1> DEFINE Msg == [Tasks -> [place : Place, retries : Nat, run : Nat]]
           Goal == crashes = 0 /\ message'[u].place \in {"returned", "gone"}
<1>m. message \in Msg /\ crashes \in Nat
  BY DEF Inv, TypeOK
<1> HIDE DEF Msg
<1>1. ASSUME crashes' = crashes, NEW t \in Tasks,
             \A v \in Tasks \ {t} : message'[v] = message[v],
             t = u => message'[t].place \in {"returned", "gone"}
      PROVE  Goal
  BY <1>1
<1>2. CASE Reception \/ Review \/ UNCHANGED vars
  BY <1>2 DEF Reception, UploadMarksReady, UploadEnds, AddDocument, Review, EditItem,
     ApproveQuote, RejectQuote, IncludeInComparison, vars
<1>3. ASSUME NEW t \in Tasks, Request(t) \/ AiServiceMissing(t)
      PROVE  Goal
  <2>1. /\ message[t].place \in {"none", "requested", "queued", "restarted"}
        /\ crashes' = crashes
        /\ \E p \in Place : message' = [message EXCEPT ![t].place = p]
    BY <1>3 DEF Request, RequestAnalysis, RequestReanalysis, RequestProcessing,
       RequestReprocessing, CreateTask, Publish, PublishFails, RequestDies,
       AiServiceMissing, AtExecute, MoveMessage, LeaveFor, Place
  <2> QED
    BY <1>1, <2>1, <1>m DEF Msg
<1>4. ASSUME NEW t \in Tasks, NEW retryable \in BOOLEAN, NEW resolved \in BOOLEAN,
             \/ RestartForRetry(t) \/ ReuseCompletedRun(t) \/ RefuseAnalysis(t)
             \/ AnalysisRaises(t) \/ PersistAnalysis(t, resolved) \/ RecordFailure(t, retryable)
      PROVE  Goal
  <2>1. /\ message[t].place \in {"queued", "restarted", "extracting", "raising"}
        /\ crashes' = crashes
        /\ \E p \in Place : message' = [message EXCEPT ![t].place = p]
    BY <1>4 DEF RestartForRetry, ReuseCompletedRun, RefuseAnalysis, AnalysisRaises,
       PersistAnalysis, RecordFailure, AtExecute, MoveMessage, LeaveFor, Place
  <2> QED
    BY <1>1, <2>1, <1>m DEF Msg
<1>5. ASSUME NEW t \in Tasks, StartAnalysis(t)
      PROVE  Goal
  <2>1. message[t].place \in {"queued", "restarted"} /\ crashes' = crashes
    BY <1>5 DEF StartAnalysis, AtExecute
  <2>2. PICK n : n = Len(runs) + 1
    OBVIOUS
  <2>3. message' = [message EXCEPT ![t] = [@ EXCEPT !.place = "extracting", !.run = n]]
    BY <1>5, <2>2 DEF StartAnalysis
  <2> QED
    BY <1>1, <2>1, <2>3, <1>m DEF Msg
<1>6. ASSUME NEW t \in Tasks, RetryTask(t)
      PROVE  Goal
  BY <1>6, <1>1, <1>m DEF RetryTask, Msg
<1>7. ASSUME NEW t \in Tasks, Acknowledge(t)
      PROVE  Goal
  BY <1>7, <1>1, <1>m DEF Acknowledge, Msg
<1>8. ASSUME NEW t \in Tasks, WorkerCrash(t)
      PROVE  Goal
  BY <1>8, <1>m DEF WorkerCrash
<1> QED
  BY <1>2, <1>3, <1>4, <1>5, <1>6, <1>7, <1>8 DEF Next, Work

\* One request completes at most one run while no worker dies: a message that
\* completed one does not execute again.
THEOREM RequestsCompleteOnce == Spec => []OneCompletedRunPerRequest
<1>1. Init => OncePerRequest
  BY DEF Init, OncePerRequest, OneCompletedRunPerRequest, SettledInv, CompletedRuns, RunNumbers
<1>2. Inv /\ OncePerRequest /\ [Next]_vars => OncePerRequest'
  <2> SUFFICES ASSUME Inv, OncePerRequest, [Next]_vars, crashes' = 0
               PROVE  /\ \A r, s \in CompletedRuns' : runs'[r].task = runs'[s].task => r = s
                      /\ \A r \in CompletedRuns' :
                           message'[runs'[r].task].place \in {"returned", "gone"}
    BY DEF OncePerRequest, OneCompletedRunPerRequest, SettledInv
  <2>c. crashes = 0
    BY DeathsCount DEF Inv
  <2>r. \A r \in CompletedRuns : runs[r].task \in Tasks
    <3>1. \A r \in RunNumbers : runs[r] \in Run
      BY ElementOfSeq DEF Inv, TypeOK, RunNumbers
    <3> QED
      BY <3>1 DEF CompletedRuns, Run
  <2>o. /\ \A r, s \in CompletedRuns : runs[r].task = runs[s].task => r = s
        /\ \A r \in CompletedRuns : message[runs[r].task].place \in {"returned", "gone"}
    BY <2>c DEF OncePerRequest, OneCompletedRunPerRequest, SettledInv
  <2>1. ASSUME NEW t \in Tasks, NEW resolved \in BOOLEAN, PersistAnalysis(t, resolved)
        PROVE  /\ \A r, s \in CompletedRuns' : runs'[r].task = runs'[s].task => r = s
               /\ \A r \in CompletedRuns' :
                    message'[runs'[r].task].place \in {"returned", "gone"}
    <3>1. /\ CompletedRuns' = CompletedRuns \cup {message[t].run}
          /\ runs'[message[t].run].task = t
          /\ \A i \in CompletedRuns : runs'[i].task = runs[i].task
      BY <2>1, ExtractionIsNew DEF CompletedRuns
    <3>2. message[t].place = "extracting" /\ message'[t].place = "returned"
      BY <2>1 DEF PersistAnalysis, MoveMessage, Inv, TypeOK
    <3>3. \A i \in CompletedRuns : runs[i].task # t
      BY <2>o, <3>2
    <3>4. \A i \in CompletedRuns : message'[runs[i].task].place \in {"returned", "gone"}
      BY <2>o, <2>r, SettledStays
    <3> QED
      BY <2>o, <3>1, <3>2, <3>3, <3>4
  <2>2. CASE ~ExtractionWritten
    <3>1. /\ CompletedRuns' = CompletedRuns
          /\ \A i \in CompletedRuns : runs'[i].task = runs[i].task
      BY <2>2, RunsStandStill DEF Inv, CompletedRuns
    <3>2. \A i \in CompletedRuns : message'[runs[i].task].place \in {"returned", "gone"}
      BY <2>o, <2>r, SettledStays
    <3> QED
      BY <2>o, <3>1, <3>2
  <2> QED
    BY <2>1, <2>2 DEF ExtractionWritten
<1>3. OncePerRequest => OneCompletedRunPerRequest
  BY DEF OncePerRequest
<1> QED
  BY <1>1, <1>2, <1>3, Invariance, PTL DEF Spec

\* Without an explicit reanalysis the latest document is analyzed to
\* completion at most once, however many documents were added before.
THEOREM LatestDocumentReadOnce == Spec => []LatestOnceInv
BY AttendanceInvariance, PTL DEF AttendanceInv

\* Where no route forces a reanalysis and the quote keeps the document it
\* arrived with, that document is analyzed to completion at most once.
THEOREM DocumentReadOnce ==
  ASSUME MaxDocuments = 1, \A route \in Routes : ~Forced(route)
  PROVE  Spec => []OneCompletedRunPerDocument
<1> DEFINE Alone == Len(documents) = 1 /\ NoneForced
<1>1. Init => Alone
  BY DEF Init, NoneForced, Forced
<1>2. Inv /\ Alone /\ [Next]_vars => Alone'
  <2> SUFFICES ASSUME Inv, Alone, [Next]_vars
               PROVE  Alone'
    OBVIOUS
  <2>1. ~AddDocument
    BY DEF AddDocument
  <2>2. Len(documents') = 1
    BY <2>1, DocumentsStay DEF Inv
  <2>3. NoneForced'
    BY RoutesStay DEF NoneForced
  <2> QED
    BY <2>2, <2>3
<1>3. Inv /\ Alone /\ LatestOnceInv => OneCompletedRunPerDocument
  <2> SUFFICES ASSUME Inv, Alone, LatestOnceInv, NEW r \in CompletedRuns,
                      NEW s \in CompletedRuns, runs[r].document = runs[s].document
               PROVE  r = s
    BY DEF OneCompletedRunPerDocument
  <2>1. runs[r].document \in 1..Len(documents)
    BY DEF Inv, TypeOK, CompletedRuns
  <2> QED
    BY <2>1 DEF LatestOnceInv
<1> HIDE DEF Alone
<1> QED
  BY <1>1, <1>2, <1>3, Invariance, LatestDocumentReadOnce, PTL DEF Spec

-----------------------------------------------------------------------------
(* The refinement *)

\* The rows, tasks and messages of a quote implement HumanGate.
THEOREM GateIsImplemented == Spec => ImplementsGate
<1>1. Init => Gate!Init
  BY DEF Init, Gate!Init, Phase, CurrentRun, CurrentRuns, CompletedRuns, RunNumbers
<1>2. Inv /\ [Next]_vars => [Gate!Next]_(Gate!vars)
  <2> SUFFICES ASSUME Inv, [Next]_vars
               PROVE  [Gate!Next]_(Gate!vars)
    OBVIOUS
  <2>1. ASSUME NEW t \in Tasks, NEW resolved \in BOOLEAN, PersistAnalysis(t, resolved)
        PROVE  Gate!Present
    <3>1. /\ Phase = "open" /\ Phase' = "review"
          /\ message[t].run \in RunNumbers \ CompletedRuns
          /\ CompletedRuns' = CompletedRuns \cup {message[t].run}
          /\ CurrentRuns' = {message[t].run}
      BY <2>1, ExtractionIsNew DEF Phase
    <3>2. CurrentRun' = message[t].run
      BY <3>1 DEF CurrentRun
    <3>3. message[t].run # NoRun
      BY <3>1 DEF RunNumbers, NoRun
    <3> QED
      BY <3>1, <3>2, <3>3 DEF Gate!Present
  <2>2. CASE ~ExtractionWritten
    <3>1. CompletedRuns' = CompletedRuns /\ CurrentRuns' = CurrentRuns
      BY <2>2, RunsStandStill DEF Inv
    <3>2. CurrentRun' = CurrentRun
      BY <3>1 DEF CurrentRun
    <3>3. ReviewMoves
      BY <2>2, ReviewMovesAlone DEF Inv
    <3> QED
      BY <3>1, <3>2, <3>3 DEF ReviewMoves, Gate!Next, Gate!Reopen, Gate!Approve, Gate!Compare,
         Gate!vars
  <2> QED
    BY <2>1, <2>2 DEF ExtractionWritten, Gate!Next
<1> QED
  BY <1>1, <1>2, Invariance, PTL DEF Spec, ImplementsGate, Gate!Spec
=============================================================================
