----------------------- MODULE DocumentPipelineProofs -----------------------
(***************************************************************************)
(* Theorems about DocumentPipeline, for any publishers, workers, faults    *)
(* and number of crashes.                                                  *)
(***************************************************************************)
EXTENDS DocumentPipeline, TLAPS

-----------------------------------------------------------------------------
(* The inductive invariant *)

Unfinished == {"processing", "text_extracted"}

Active == Stages \cup {"extracting"}

\* w took the document up, or wrote it, after the last time that it was not
\* being processed: what w has read since, if anything, says so.
Responsible(w) ==
  /\ worker[w].at \in Active
  /\ worker[w].seen = NotRead \/ worker[w].seen.doc \in Unfinished

\* Whoever made the document unfinished last is still responsible for it, unless
\* the document was hidden from it.
ResponsibleInv ==
  crashes = 0 /\ ~archived /\ doc \in Unfinished => \E w \in Workers : Responsible(w)

\* The run and its evaluation never go away, so what a worker read of them is
\* still true.
EvaluationInv ==
  /\ quality # "none" => run # "none"
  /\ doc \in Decisions => doc = quality
  /\ \A w \in Workers :
       worker[w].seen # NotRead =>
         /\ worker[w].seen.run # "none" => run # "none"
         /\ worker[w].seen.quality # "none" => worker[w].seen.quality = quality
         /\ worker[w].seen.doc \in Decisions => quality # "none"

IInv == TypeOK /\ ResponsibleInv /\ EvaluationInv

-----------------------------------------------------------------------------
(* Facts about single workers *)

\* What is known of a worker that has read the rows.
LEMMA SeenRows ==
  ASSUME TypeOK, NEW w \in Workers, worker[w].seen # NotRead
  PROVE  /\ Seen(w) \in Rows
         /\ Seen(w).doc \in DocumentStatus /\ Seen(w).run \in RunStatus
         /\ Seen(w).quality \in {"none"} \cup Decisions
BY DEF TypeOK, Work, Rows, Seen

\* Going on changes the stage, forgets what was read, and leaves the other
\* workers alone.
LEMMA Continued ==
  ASSUME TypeOK, NEW w \in Workers, NEW at \in Stages \cup {"extracting", "returned"},
         Continue(w, at)
  PROVE  /\ worker' \in [Workers -> Work]
         /\ worker'[w].at = at /\ worker'[w].seen = NotRead
         /\ \A v \in Workers : v # w => worker'[v] = worker[v]
<1> DEFINE next == [worker[w] EXCEPT !.at = at, !.seen = NotRead]
<1>1. worker' = [worker EXCEPT ![w] = next]
  BY DEF Continue
<1>2. next \in Work /\ next.at = at /\ next.seen = NotRead
  BY DEF TypeOK, Work
<1> QED  BY <1>1, <1>2 DEF TypeOK

\* The same of a worker that takes a message.
LEMMA Taken ==
  ASSUME TypeOK, NEW w \in Workers, NEW m \in broker, NEW at \in Stages \cup {"returned"},
         Takes(w, m, at)
  PROVE  /\ worker' \in [Workers -> Work]
         /\ worker'[w].at = at /\ worker'[w].seen = NotRead
         /\ \A v \in Workers : v # w => worker'[v] = worker[v]
<1> DEFINE next == [Idle EXCEPT !.at = at, !.message = m]
<1>1. worker' = [worker EXCEPT ![w] = next]
  BY DEF Takes
<1>2. next \in Work /\ next.at = at /\ next.seen = NotRead
  BY DEF TypeOK, Work, Idle
<1> QED  BY <1>1, <1>2 DEF TypeOK

\* A step of a worker that leaves it active, or the document finished, keeps
\* somebody responsible.
LEMMA StaysResponsible ==
  ASSUME ResponsibleInv, NEW w \in Workers, crashes' = crashes, archived' = archived,
         \A v \in Workers : v # w => worker'[v] = worker[v],
         doc' \in Unfinished => \/ Responsible(w)'
                                \/ doc \in Unfinished /\ ~Responsible(w)
  PROVE  ResponsibleInv'
<1> SUFFICES ASSUME crashes = 0, ~archived, doc' \in Unfinished, ~Responsible(w)'
             PROVE  \E v \in Workers : Responsible(v)'
  BY DEF ResponsibleInv
<1>1. PICK v \in Workers : Responsible(v)
  BY DEF ResponsibleInv
<1>2. v # w
  BY <1>1
<1>3. Responsible(v)'
  BY <1>1, <1>2 DEF Responsible
<1> QED  BY <1>3

\* A step of a worker that forgets what it read, and writes the run and its
\* evaluation only once, keeps the rows in agreement.
LEMMA StaysEvaluated ==
  ASSUME TypeOK, EvaluationInv, NEW w \in Workers,
         \A v \in Workers : v # w => worker'[v] = worker[v],
         worker'[w].seen = NotRead,
         run # "none" => run' # "none",
         quality # "none" => quality' = quality,
         quality' # "none" => run' # "none",
         doc' \in Decisions => doc' = quality'
  PROVE  EvaluationInv'
<1>1. \A v \in Workers : worker'[v].seen # NotRead =>
        /\ worker'[v].seen.run # "none" => run' # "none"
        /\ worker'[v].seen.quality # "none" => worker'[v].seen.quality = quality'
        /\ worker'[v].seen.doc \in Decisions => quality' # "none"
  BY DEF EvaluationInv
<1> QED  BY <1>1 DEF EvaluationInv

-----------------------------------------------------------------------------
(* Every step keeps the invariant *)

LEMMA InitInv == Init => IInv
<1> SUFFICES ASSUME Init PROVE IInv
  OBVIOUS
<1>1. Idle \in Work /\ Idle.seen = NotRead
  BY DEF Idle, Work
<1>2. TypeOK
  BY <1>1 DEF Init, TypeOK, DocumentStatus, RunStatus
<1>3. ResponsibleInv /\ EvaluationInv
  BY <1>1 DEF Init, ResponsibleInv, EvaluationInv, Unfinished, Decisions
<1> QED  BY <1>2, <1>3 DEF IInv

\* Publishers leave the rows of the run, and the workers, alone.
LEMMA PublishingKeepsInv ==
  ASSUME IInv, NEW p \in Publishers, ScanReads(p) \/ PublisherStep(p)
  PROVE  IInv'
<1>1. /\ UNCHANGED <<run, quality, worker, deletion, archived, crashes>>
      /\ doc' = doc \/ doc' = "queued"
  BY DEF ScanReads, PublisherStep, ScanMarks, Publish, PublishRaises, Rest
<1>2. publisher' \in [Publishers -> {"idle", "mark", "publish"}] /\ broker' \subseteq Publishers
  BY DEF ScanReads, PublisherStep, ScanMarks, Publish, PublishRaises, IInv, TypeOK
<1>3. TypeOK'
  BY <1>1, <1>2 DEF IInv, TypeOK, DocumentStatus
<1>4. ResponsibleInv' /\ EvaluationInv'
  BY <1>1 DEF IInv, ResponsibleInv, EvaluationInv, Responsible, Unfinished, Decisions
<1> QED  BY <1>3, <1>4 DEF IInv

LEMMA DeletionKeepsInv ==
  ASSUME IInv, DeleteReads \/ DeleteWrites \/ Archive
  PROVE  IInv'
BY DEF DeleteReads, DeleteWrites, Archive, IInv, TypeOK, ResponsibleInv, EvaluationInv, Responsible,
       Unfinished, Decisions, DocumentStatus

\* A claim makes its worker responsible.
LEMMA ReceivingKeepsInv ==
  ASSUME IInv, NEW w \in Workers, NEW m \in broker, Claim(w, m) \/ Skip(w, m)
  PROVE  IInv'
<1>1. UNCHANGED <<run, quality, broker, publisher, deletion, archived, crashes>>
  BY DEF Claim, Skip, Others
<1>2. PICK at \in Stages \cup {"returned"} :
        /\ Takes(w, m, at)
        /\ \/ doc' = "processing" /\ at = "extract"
           \/ doc' = "failed"
           \/ doc' = doc /\ worker[w].at = "idle"
  BY DEF Claim, Skip, Receives, Stages
<1>3. /\ worker' \in [Workers -> Work]
      /\ worker'[w].at = at /\ worker'[w].seen = NotRead
      /\ \A v \in Workers : v # w => worker'[v] = worker[v]
  BY <1>2, Taken DEF IInv
<1>4. TypeOK'
  BY <1>1, <1>2, <1>3 DEF IInv, TypeOK, DocumentStatus
<1>5. ResponsibleInv'
  <2>1. at = "extract" => Responsible(w)'
    BY <1>3 DEF Responsible, Active, Stages
  <2>2. worker[w].at = "idle" => ~Responsible(w)
    BY DEF Responsible, Active, Stages
  <2> QED  BY <1>1, <1>2, <1>3, <2>1, <2>2, StaysResponsible DEF IInv, Unfinished
<1>6. EvaluationInv'
  BY <1>1, <1>2, <1>3, StaysEvaluated DEF IInv, EvaluationInv, Decisions
<1> QED  BY <1>4, <1>5, <1>6 DEF IInv

\* A read changes what one worker knows; somebody responsible who finds the
\* document unfinished stays responsible.
LEMMA ReadingKeepsInv ==
  ASSUME IInv, NEW w \in Workers, Reads(w)
  PROVE  IInv'
<1> DEFINE rows == RowsFor(worker[w].at)
<1>1. /\ UNCHANGED <<doc, run, quality, broker, publisher, deletion, archived, crashes>>
      /\ worker[w].at \in Stages
  BY DEF Reads, Others
<1>2. worker' = [worker EXCEPT ![w] = [worker[w] EXCEPT !.seen = rows]]
  BY DEF Reads
<1>3. /\ Visible \in DocumentStatus /\ Visible \in {doc, "deleted"}
      /\ ~archived => Visible = doc
  BY DEF Visible, IInv, TypeOK, DocumentStatus
<1>4. /\ rows \in Rows /\ rows.doc = Visible
      /\ rows.run \in {"none", run} /\ rows.quality \in {"none", quality}
  BY <1>3 DEF RowsFor, IInv, TypeOK, Rows, RunStatus
<1>5. rows # NotRead
  BY <1>4, NamesAssumption
<1> HIDE DEF rows
<1>6. /\ worker' \in [Workers -> Work]
      /\ worker'[w].at = worker[w].at /\ worker'[w].seen = rows
      /\ \A v \in Workers : v # w => worker'[v] = worker[v]
  BY <1>2, <1>4 DEF IInv, TypeOK, Work
<1>7. TypeOK'
  BY <1>1, <1>6 DEF IInv, TypeOK
<1>8. ResponsibleInv'
  <2>1. CASE archived
    BY <1>1, <2>1 DEF ResponsibleInv
  <2>2. CASE ~archived
    <3>1. doc \in Unfinished => Responsible(w)'
      BY <1>1, <1>3, <1>4, <1>6, <2>2 DEF Responsible, Active
    <3> QED  BY <1>1, <1>6, <3>1, StaysResponsible DEF IInv
  <2> QED  BY <2>1, <2>2
<1>9. EvaluationInv'
  BY <1>1, <1>3, <1>4, <1>6 DEF IInv, EvaluationInv, Decisions
<1> QED  BY <1>7, <1>8, <1>9 DEF IInv

\* A transaction that raises before the last one leaves its worker active.
LEMMA RaisingKeepsInv ==
  ASSUME IInv, NEW w \in Workers, NEW at \in Stages, Raises(w, at)
  PROVE  IInv'
<1>1. UNCHANGED <<doc, run, quality, broker, publisher, deletion, archived, crashes>>
  BY DEF Raises, Others
<1>2. /\ worker' \in [Workers -> Work]
      /\ worker'[w].at = at /\ worker'[w].seen = NotRead
      /\ \A v \in Workers : v # w => worker'[v] = worker[v]
  BY Continued DEF Raises, IInv
<1>3. TypeOK'
  BY <1>1, <1>2 DEF IInv, TypeOK
<1>4. ResponsibleInv'
  BY <1>1, <1>2, StaysResponsible DEF IInv, Responsible, Active
<1>5. EvaluationInv'
  BY <1>1, <1>2, StaysEvaluated DEF IInv, EvaluationInv
<1> QED  BY <1>3, <1>4, <1>5 DEF IInv

\* A step that writes its rows and goes on keeps the invariant if it keeps the
\* evaluation true, and does not return from an unfinished document it knows of.
LEMMA WritingKeepsInv ==
  ASSUME IInv, NEW w \in Workers, NEW at \in Stages \cup {"extracting", "returned"},
         Continue(w, at), UNCHANGED <<broker, publisher, deletion, archived, crashes>>,
         doc' \in DocumentStatus, run' \in RunStatus, quality' \in {"none"} \cup Decisions,
         at = "returned" /\ doc' \in Unfinished => doc' = doc /\ ~Responsible(w),
         run # "none" => run' # "none",
         quality # "none" => quality' = quality,
         quality' # "none" => run' # "none",
         doc' \in Decisions => doc' = quality'
  PROVE  IInv'
<1>1. /\ worker' \in [Workers -> Work]
      /\ worker'[w].at = at /\ worker'[w].seen = NotRead
      /\ \A v \in Workers : v # w => worker'[v] = worker[v]
  BY Continued DEF IInv
<1>2. TypeOK'
  BY <1>1 DEF IInv, TypeOK
<1>3. ResponsibleInv'
  <2>1. at # "returned" => Responsible(w)'
    BY <1>1 DEF Responsible, Active
  <2> QED  BY <1>1, <2>1, StaysResponsible DEF IInv
<1>4. EvaluationInv'
  BY <1>1, StaysEvaluated DEF IInv
<1> QED  BY <1>2, <1>3, <1>4 DEF IInv

\* The stages that record an error or produce text.
LEMMA ExtractingKeepsInv ==
  ASSUME IInv, NEW w \in Workers, StartExtraction(w) \/ Extract(w) \/ StoreText(w) \/ FailRun(w)
  PROVE  IInv'
<1>1. CASE StartExtraction(w)
  <2>1. CASE Raises(w, "fail_document")
    BY <2>1, RaisingKeepsInv DEF Stages
  <2>2. CASE ~Raises(w, "fail_document")
    <3>1. PICK at \in {"extracting", "evaluate"} :
            /\ Continue(w, at)
            /\ UNCHANGED <<quality, broker, publisher, deletion, archived, crashes>>
            /\ doc' \in {doc, "text_extracted"} /\ run' \in {run, "running"}
      BY <1>1, <2>2 DEF StartExtraction, Others
    <3> QED  BY <3>1, WritingKeepsInv
                DEF IInv, TypeOK, EvaluationInv, DocumentStatus, RunStatus, Stages, Decisions
  <2> QED  BY <2>1, <2>2
<1>2. CASE Extract(w)
  <2>1. PICK at \in {"store", "fail_run"} : Continue(w, at)
    BY <1>2 DEF Extract
  <2> QED  BY <1>2, <2>1, WritingKeepsInv DEF Extract, Others, IInv, TypeOK, EvaluationInv, Stages
<1>3. CASE StoreText(w)
  <2>1. CASE Raises(w, "fail_run")
    BY <2>1, RaisingKeepsInv DEF Stages
  <2>2. CASE ~Raises(w, "fail_run")
    <3>1. /\ Continue(w, "evaluate") /\ run' = "completed" /\ doc' = "text_extracted"
          /\ UNCHANGED <<quality, broker, publisher, deletion, archived, crashes>>
      BY <1>3, <2>2 DEF StoreText, Others
    <3> QED  BY <3>1, WritingKeepsInv
                DEF IInv, TypeOK, EvaluationInv, DocumentStatus, RunStatus, Stages, Decisions
  <2> QED  BY <2>1, <2>2
<1>4. CASE FailRun(w)
  <2>1. CASE Raises(w, "fail_document")
    BY <2>1, RaisingKeepsInv DEF Stages
  <2>2. CASE ~Raises(w, "fail_document")
    <3>1. /\ Continue(w, "fail_document") /\ run' \in {run, "failed"} /\ doc' \in {doc, "failed"}
          /\ UNCHANGED <<quality, broker, publisher, deletion, archived, crashes>>
      BY <1>4, <2>2 DEF FailRun, Others
    <3> QED  BY <3>1, WritingKeepsInv
                DEF IInv, TypeOK, EvaluationInv, DocumentStatus, RunStatus, Stages, Decisions
  <2> QED  BY <2>1, <2>2
<1> QED  BY <1>1, <1>2, <1>3, <1>4

\* An evaluation is made once, of a run that there is.
LEMMA EvaluatingKeepsInv ==
  ASSUME IInv, NEW w \in Workers, EvaluateQuality(w)
  PROVE  IInv'
<1>1. CASE Raises(w, "fail_document")
  BY <1>1, RaisingKeepsInv DEF Stages
<1>2. CASE ~Raises(w, "fail_document")
  <2>1. /\ Continue(w, "finalize")
        /\ UNCHANGED <<doc, run, broker, publisher, deletion, archived, crashes>>
        /\ Seen(w).run = "completed" /\ Seen(w) # NotRead
        /\ ~(Seen(w).quality = "none" /\ quality # "none")
        /\ quality' \in Decisions \/ quality' = quality
        /\ Seen(w).quality # "none" => quality' = quality
    BY <1>2 DEF EvaluateQuality, Others, HasRead, Seen
  <2>2. run # "none"
    BY <2>1 DEF Seen, IInv, EvaluationInv
  <2>3. quality # "none" => quality' = quality
    BY <2>1
  <2>4. doc \in Decisions => doc = quality /\ quality # "none"
    BY DEF IInv, EvaluationInv, Decisions
  <2> QED  BY <2>1, <2>2, <2>3, <2>4, WritingKeepsInv DEF IInv, TypeOK, Stages
<1> QED  BY <1>1, <1>2

\* The last transactions return only from a document that has a result, or
\* that others made unfinished since it was read.
LEMMA EndingKeepsInv ==
  ASSUME IInv, NEW w \in Workers, Finalize(w) \/ FailDocument(w)
  PROVE  IInv'
<1>1. Seen(w) # NotRead /\ Seen(w) = worker[w].seen /\ Seen(w).doc \in DocumentStatus
  BY SeenRows DEF Finalize, FailDocument, HasRead, Seen, IInv
<1>2. Seen(w).doc \notin Unfinished => ~Responsible(w)
  BY <1>1 DEF Responsible
<1>3. CASE Finalize(w) /\ Raises(w, "fail_document")
  BY <1>3, RaisingKeepsInv DEF Stages
<1>4. CASE Finalize(w) /\ ~Raises(w, "fail_document")
  <2>1. /\ Continue(w, "returned")
        /\ UNCHANGED <<run, quality, broker, publisher, deletion, archived, crashes>>
        /\ \/ Seen(w).doc \in Decisions /\ doc' = doc
           \/ doc' = Seen(w).quality /\ Seen(w).quality # "none"
    BY <1>4 DEF Finalize, Others
  <2>2. Seen(w).quality # "none" => Seen(w).quality = quality /\ Seen(w).quality \in Decisions
    BY <1>1, SeenRows DEF IInv, EvaluationInv
  <2>3. Seen(w).doc \in Decisions => Seen(w).doc \notin Unfinished
    BY DEF Decisions, Unfinished
  <2>4. doc' \in DocumentStatus
    BY <2>1, <2>2 DEF IInv, TypeOK, Decisions, DocumentStatus
  <2>5. doc' \in Unfinished => doc' = doc /\ ~Responsible(w)
    BY <1>2, <2>1, <2>2, <2>3 DEF Decisions, Unfinished
  <2>6. doc' \in Decisions => doc' = quality'
    BY <2>1, <2>2 DEF IInv, EvaluationInv
  <2> QED  BY <2>1, <2>4, <2>5, <2>6, WritingKeepsInv DEF IInv, TypeOK, EvaluationInv
<1>5. CASE FailDocument(w)
  <2>1. /\ Continue(w, "returned")
        /\ UNCHANGED <<run, quality, broker, publisher, deletion, archived, crashes>>
        /\ \/ doc' = "failed"
           \/ doc' = doc /\ Seen(w).doc \notin Unfinished
    BY <1>1, <1>5 DEF FailDocument, Raises, Others, MayMove, Transitions, Unfinished
  <2>2. doc' \in DocumentStatus
    BY <2>1 DEF IInv, TypeOK, DocumentStatus
  <2>3. doc' \in Unfinished => doc' = doc /\ ~Responsible(w)
    BY <1>2, <2>1 DEF Unfinished
  <2>4. doc' \in Decisions => doc' = quality'
    BY <2>1 DEF IInv, EvaluationInv, Decisions
  <2> QED  BY <2>1, <2>2, <2>3, <2>4, WritingKeepsInv DEF IInv, TypeOK, EvaluationInv
<1> QED  BY <1>3, <1>4, <1>5

\* Nobody who returned is responsible, and a crash ends the promise.
LEMMA LeavingKeepsInv ==
  ASSUME IInv, NEW w \in Workers, Acknowledge(w) \/ WorkerDies(w)
  PROVE  IInv'
<1>1. /\ UNCHANGED <<doc, run, quality, publisher, deletion, archived>>
      /\ worker' = [worker EXCEPT ![w] = Idle]
      /\ broker' \subseteq broker /\ crashes' \in Nat
      /\ (crashes' = crashes /\ worker[w].at = "returned") \/ crashes' # 0
  BY DEF Acknowledge, WorkerDies, Others, IInv, TypeOK
<1>2. Idle \in Work /\ Idle.seen = NotRead
  BY DEF Idle, Work
<1>3. /\ worker' \in [Workers -> Work] /\ worker'[w].seen = NotRead
      /\ \A v \in Workers : v # w => worker'[v] = worker[v]
  BY <1>1, <1>2 DEF IInv, TypeOK
<1>4. TypeOK'
  BY <1>1, <1>3 DEF IInv, TypeOK
<1>5. ResponsibleInv'
  <2>1. worker[w].at = "returned" => ~Responsible(w)
    BY DEF Responsible, Active, Stages
  <2>2. CASE crashes' # 0
    BY <2>2 DEF ResponsibleInv
  <2>3. CASE crashes' = crashes /\ worker[w].at = "returned"
    BY <1>1, <1>3, <2>1, <2>3, StaysResponsible DEF IInv
  <2> QED  BY <1>1, <2>2, <2>3
<1>6. EvaluationInv'
  BY <1>1, <1>3, StaysEvaluated DEF IInv, EvaluationInv
<1> QED  BY <1>4, <1>5, <1>6 DEF IInv

LEMMA Inductive == IInv /\ [Next]_vars => IInv'
<1> SUFFICES ASSUME IInv, [Next]_vars PROVE IInv'
  OBVIOUS
<1>1. CASE \E p \in Publishers : ScanReads(p) \/ PublisherStep(p)
  BY <1>1, PublishingKeepsInv
<1>2. CASE DeleteReads \/ DeleteWrites \/ Archive
  BY <1>2, DeletionKeepsInv
<1>3. ASSUME NEW w \in Workers,
             (\E m \in broker : Claim(w, m) \/ Skip(w, m)) \/ PipelineStep(w) \/ WorkerDies(w)
      PROVE  IInv'
  BY <1>3, ReceivingKeepsInv, ReadingKeepsInv, ExtractingKeepsInv, EvaluatingKeepsInv,
     EndingKeepsInv, LeavingKeepsInv DEF PipelineStep
<1>4. CASE UNCHANGED vars
  BY <1>4 DEF vars, IInv, TypeOK, ResponsibleInv, EvaluationInv, Responsible
<1> QED  BY <1>1, <1>2, <1>3, <1>4 DEF Next

LEMMA Invariance == Spec => []IInv
<1> QED  BY InitInv, Inductive, PTL DEF Spec

-----------------------------------------------------------------------------
(* The invariants of the runs *)

\* Every reachable state is well typed.
THEOREM TypeCorrect == Spec => []TypeOK
<1>1. IInv => TypeOK
  BY DEF IInv
<1> QED  BY <1>1, Invariance, PTL

\* While no worker dies and the tender is not archived, no document is left in the
\* middle of its processing, for any number of duplicate deliveries, scans,
\* failures and deletions.
THEOREM NoDocumentIsAbandoned == Spec => []ProcessingIsAttended
<1>1. IInv => ProcessingIsAttended
  BY DEF IInv, ResponsibleInv, ProcessingIsAttended, Attended, Responsible, Active, Unfinished
<1> QED  BY <1>1, Invariance, PTL

\* Whatever overtakes whatever, a document that is ready or needs OCR has that
\* decision as its evaluation, and a run.
THEOREM ResultIsEvaluated == Spec => []StatusMatchesEvaluation
<1>1. IInv => StatusMatchesEvaluation
  BY DEF IInv, EvaluationInv, StatusMatchesEvaluation, Decisions
<1> QED  BY <1>1, Invariance, PTL
=============================================================================
