------------------------ MODULE TenderWorkflowProofs ------------------------
(***************************************************************************)
(* Theorems about TenderWorkflow, for any suppliers, calls, weights and    *)
(* bounds.                                                                 *)
(***************************************************************************)
EXTENDS TenderWorkflow, TLAPS

-----------------------------------------------------------------------------
(* The inductive invariant *)

\* A status that no user gave needs something to show for.
Earned(status) ==
  /\ status = "waiting_quotes" => "waiting_quotes" \in moved \/ Invited # {}
  /\ status = "quote_analysis" =>
       "quote_analysis" \in moved \/ \E s \in Suppliers : quote[s] # "none"
  /\ status = "comparison_ready" =>
       \/ "comparison_ready" \in moved \/ legacy # {}
       \/ \E x \in comparisons : x.status = "ready"

Grounded(key) == key.snapshot <= snapshots /\ key.quotes # {} /\ key.quotes \subseteq Approved

\* What a call in progress has read is old, but as good as it was.
Good(k) ==
  /\ k.at \in {"update", "archive", "document", "synchronize", "upload", "compare", "legacy"}
       => k.seen # Absent
  /\ k.seen # Absent => Earned(k.seen.status)
  /\ k.at \in {"synchronize", "synchronized", "upload", "uploaded"} => k.supplier # Absent
  /\ k.at \in {"compare", "legacy"} => Grounded(k.key)
  /\ k.at = "recommend" =>
       k.comparison \in comparisons /\ k.comparison.status = "ready" /\ k.weights # Absent

CallsAreGood == \A c \in Calls : Good(call[c])

IInv ==
  TypeOK /\ CallsAreGood /\ Earned(tender.status) /\ ResultsAreGrounded /\ OneResultPerKey

-----------------------------------------------------------------------------
(* What a step may do to the rows *)

\* Everything that a status or a comparison may rest on stays.
Forward ==
  /\ moved \subseteq moved' /\ legacy \subseteq legacy' /\ comparisons \subseteq comparisons'
  /\ snapshots <= snapshots'
  /\ \A p \in Suppliers \X Versions :
       rfq[p] \in {"sent", "responded"} => rfq'[p] \in {"sent", "responded"}
  /\ \A s \in Suppliers : quote[s] # "none" => quote'[s] # "none"
  /\ Approved \subseteq Approved'

LEMMA StaysEarned ==
  ASSUME Forward, NEW status, Earned(status)
  PROVE  Earned(status)'
<1>1. Invited # {} => Invited' # {}
  BY DEF Forward, Invited
<1>2. (\E s \in Suppliers : quote[s] # "none") => \E s \in Suppliers : quote'[s] # "none"
  BY DEF Forward
<1> QED  BY <1>1, <1>2 DEF Forward, Earned

LEMMA StaysGrounded ==
  ASSUME TypeOK, Forward, snapshots' \in Nat, NEW key \in Key, Grounded(key)
  PROVE  Grounded(key)'
BY BoundsAssumption DEF Forward, Grounded, Key, Versions, TypeOK

LEMMA StaysGood ==
  ASSUME TypeOK, Forward, snapshots' \in Nat, NEW k \in CallState, Good(k)
  PROVE  Good(k)'
<1>1. k.seen # Absent => Earned(k.seen.status)'
  BY StaysEarned DEF Good
<1>2. k.at \in {"compare", "legacy"} => Grounded(k.key)'
  BY StaysGrounded DEF Good, CallState
<1> QED  BY <1>1, <1>2 DEF Good, Forward

\* The rows without the calls.
RowsTyped ==
  /\ tender \in Tender
  /\ documents \in {"none", "processing", "ready"}
  /\ snapshots \in 0..MaxSnapshots
  /\ item \in [Suppliers -> ItemStatus]
  /\ rfq \in [Suppliers \X Versions -> RfqStatus]
  /\ quote \in [Suppliers -> QuoteStatus]
  /\ comparisons \subseteq Comparison
  /\ legacy \subseteq Key
  /\ recommendations \subseteq Recommendation
  /\ moved \subseteq TenderStatus
  /\ updates \in Nat

\* A step that goes forward, whose calls are good and whose tender, comparisons
\* and recommendations are new or as they were, keeps the invariant.
LEMMA StepKeepsInv ==
  ASSUME IInv, Forward, RowsTyped', call' \in [Calls -> CallState],
         \A c \in Calls : call'[c] = call[c] \/ Good(call[c])',
         tender' = tender \/ Earned(tender.status)',
         \A x \in comparisons' : x \in comparisons \/ Grounded(x.key)',
         \A r \in recommendations' :
           r \in recommendations \/ (r.comparison \in comparisons' /\ r.comparison.status = "ready"),
         OneResultPerKey'
  PROVE  IInv'
<1>1. TypeOK' /\ TypeOK /\ snapshots' \in Nat
  BY BoundsAssumption DEF IInv, TypeOK, RowsTyped
<1>2. CallsAreGood'
  <2> SUFFICES ASSUME NEW c \in Calls, call'[c] = call[c] PROVE Good(call[c])'
    BY DEF CallsAreGood
  <2>1. PICK k \in CallState : k = call[c] /\ k = call'[c]
    BY <1>1 DEF TypeOK
  <2>2. Good(k)
    BY <2>1 DEF IInv, CallsAreGood
  <2>3. Good(k)'
    BY <1>1, <2>2, StaysGood
  <2> QED  BY <2>1, <2>3
<1>3. Earned(tender.status)'
  <2>1. PICK t \in Tender : t = tender
    BY <1>1 DEF TypeOK
  <2>2. Earned(t.status)'
    BY <2>1, StaysEarned DEF IInv
  <2> QED  BY <2>1, <2>2
<1>4. ResultsAreGrounded'
  <2>1. \A x \in comparisons : Grounded(x.key)'
    <3> SUFFICES ASSUME NEW x \in comparisons PROVE Grounded(x.key)'
      OBVIOUS
    <3>1. x.key \in Key /\ Grounded(x.key)
      BY <1>1 DEF TypeOK, Comparison, IInv, ResultsAreGrounded, Grounded
    <3> QED  BY <1>1, <3>1, StaysGrounded
  <2>2. \A r \in recommendations : r.comparison \in comparisons' /\ r.comparison.status = "ready"
    BY DEF IInv, ResultsAreGrounded, Forward
  <2> QED  BY <2>1, <2>2 DEF ResultsAreGrounded, Grounded
<1> QED  BY <1>1, <1>2, <1>3, <1>4 DEF IInv

\* Only the calls change: one of them.
LEMMA ReadKeepsInv ==
  ASSUME IInv, UNCHANGED <<tender, Artifacts, moved>>, updates' \in Nat, NEW c \in Calls,
         NEW new \in CallState, Good(new), Continues(c, new)
  PROVE  IInv'
<1>1. UNCHANGED <<tender, documents, snapshots, item, rfq, quote, comparisons, legacy,
                  recommendations, moved>>
  BY DEF Artifacts
<1>2. Forward
  BY <1>1 DEF Forward, Approved, IInv, TypeOK
<1>3. RowsTyped'
  BY <1>1 DEF IInv, TypeOK, RowsTyped
<1>4. call' \in [Calls -> CallState] /\ \A k \in Calls : call'[k] = call[k] \/ call'[k] = new
  BY DEF Continues, IInv, TypeOK
<1>5. Good(new)'
  BY <1>1 DEF Good, Earned, Grounded, Invited, Approved
<1>6. \A k \in Calls : call'[k] = call[k] \/ Good(call[k])'
  BY <1>4, <1>5
<1>7. OneResultPerKey'
  BY <1>1 DEF IInv, OneResultPerKey
<1> QED  BY <1>1, <1>2, <1>3, <1>4, <1>6, <1>7, StepKeepsInv

LEMMA IdleIsGood == Idle \in CallState /\ Good(Idle) /\ Idle.at = "idle"
BY BoundsAssumption DEF Idle, CallState, Good, NoKey, Key, Versions

\* A call that has read the tender has read what was earned.
LEMMA BegunIsGood ==
  ASSUME IInv, NEW c \in Calls,
         NEW at \in {"update", "archive", "document", "generate", "synchronize", "compare", "legacy"}
  PROVE  /\ Begins(c, at) \in CallState /\ Begins(c, at).at = at /\ Begins(c, at).seen = tender
         /\ tender \in Tender /\ Earned(tender.status)
         /\ at \in {"update", "archive", "document", "generate"} => Good(Begins(c, at))
<1>1. tender \in Tender /\ Earned(tender.status) /\ tender # Absent
  BY NamesAssumption DEF IInv, TypeOK
<1>2. Begins(c, at) \in CallState /\ Begins(c, at).at = at /\ Begins(c, at).seen = tender
  BY <1>1, IdleIsGood DEF Begins, CallState
<1>3. at \in {"update", "archive", "document", "generate"} => Good(Begins(c, at))
  BY <1>1, <1>2 DEF Good
<1> QED  BY <1>1, <1>2, <1>3

LEMMA EndsWell ==
  ASSUME IInv, NEW c \in Calls, Ends(c)
  PROVE  /\ call' \in [Calls -> CallState]
         /\ \A k \in Calls : call'[k] = call[k] \/ Good(call[k])'
<1>1. call' \in [Calls -> CallState] /\ \A k \in Calls : call'[k] = call[k] \/ call'[k] = Idle
  BY IdleIsGood DEF Ends, Continues, IInv, TypeOK
<1>2. Good(Idle)'
  BY BoundsAssumption DEF Idle, Good, NoKey
<1> QED  BY <1>1, <1>2

\* What a call in progress is, and what it knows of the tender.
LEMMA CallIsGood ==
  ASSUME IInv, NEW c \in Calls
  PROVE  call[c] \in CallState /\ Good(call[c])
BY DEF IInv, TypeOK, CallsAreGood

-----------------------------------------------------------------------------
(* The calls that read *)

LEMMA InitInv == Init => IInv
<1> SUFFICES ASSUME Init PROVE IInv
  OBVIOUS
<1>1. TypeOK
  BY BoundsAssumption, IdleIsGood
  DEF Init, TypeOK, Tender, TenderStatus, ItemStatus, RfqStatus, QuoteStatus
<1>2. CallsAreGood
  BY IdleIsGood DEF Init, CallsAreGood
<1>3. Earned(tender.status)
  BY DEF Init, Earned
<1> QED  BY <1>1, <1>2, <1>3 DEF IInv, Init, ResultsAreGrounded, OneResultPerKey

LEMMA RaisesInv == ASSUME IInv, NEW c \in Calls, Raises(c) PROVE IInv'
<1>1. UNCHANGED <<tender, Artifacts, moved>> /\ updates' \in Nat /\ Continues(c, Idle)
  BY DEF Raises, History, Ends, IInv, TypeOK
<1> QED  BY <1>1, IdleIsGood, ReadKeepsInv

\* Beginning a call that reads the tender and nothing else.
LEMMA BeginsInv ==
  ASSUME IInv, NEW c \in Calls, NEW at \in {"update", "archive", "document", "generate"},
         Continues(c, Begins(c, at)), UNCHANGED <<tender, Artifacts, moved>>, updates' \in Nat
  PROVE  IInv'
<1>1. Begins(c, at) \in CallState /\ Good(Begins(c, at))
  BY BegunIsGood
<1>2. PICK new \in CallState : new = Begins(c, at)
  BY <1>1
<1>3. Good(new) /\ Continues(c, new)
  BY <1>1, <1>2
<1> QED  BY <1>3, ReadKeepsInv

LEMMA ChangeReadsInv == ASSUME IInv, NEW c \in Calls, NEW at, ChangeReads(c, at) PROVE IInv'
<1>1. /\ at \in {"update", "archive"} /\ Continues(c, Begins(c, at))
      /\ UNCHANGED <<tender, Artifacts, moved>> /\ updates' \in Nat
  BY DEF ChangeReads, IInv, TypeOK
<1> QED  BY <1>1, BeginsInv

LEMMA DocumentReadsInv == ASSUME IInv, NEW c \in Calls, DocumentReads(c) PROVE IInv'
<1>1. /\ Continues(c, Begins(c, "document"))
      /\ UNCHANGED <<tender, Artifacts, moved>> /\ updates' \in Nat
  BY DEF DocumentReads, History, IInv, TypeOK
<1> QED  BY <1>1, BeginsInv

LEMMA GenerateReadsInv == ASSUME IInv, NEW c \in Calls, GenerateReads(c) PROVE IInv'
<1>1. PICK items \in SUBSET Suppliers :
        Continues(c, [Begins(c, "generate") EXCEPT !.key.snapshot = snapshots, !.items = items])
  BY DEF GenerateReads
<1>2. snapshots \in Versions
  BY BoundsAssumption DEF GenerateReads, IInv, TypeOK, Versions
<1>3. PICK begun \in CallState : begun = Begins(c, "generate")
  BY BegunIsGood
<1>4. Good(begun) /\ begun.at = "generate"
  BY <1>3, BegunIsGood
<1>5. PICK new : new = [begun EXCEPT !.key.snapshot = snapshots, !.items = items]
  OBVIOUS
<1>6. [begun.key EXCEPT !.snapshot = snapshots] \in Key
  BY <1>2, <1>3 DEF CallState, Key
<1>7. new \in CallState
  BY <1>3, <1>5, <1>6 DEF CallState
<1>8. Good(new)
  BY <1>3, <1>4, <1>5 DEF Good, CallState
<1>9. Continues(c, new)
  BY <1>1, <1>3, <1>5
<1>10. UNCHANGED <<tender, Artifacts, moved>> /\ updates' \in Nat
  BY DEF GenerateReads, History, IInv, TypeOK
<1> QED  BY <1>7, <1>8, <1>9, <1>10, ReadKeepsInv

LEMMA SynchronizeReadsInv ==
  ASSUME IInv, NEW c \in Calls, NEW s \in Suppliers, SynchronizeReads(c, s) PROVE IInv'
<1>1. PICK begun \in CallState : begun = Begins(c, "synchronize")
  BY BegunIsGood
<1>2. begun.at = "synchronize" /\ begun.seen # Absent /\ Earned(begun.seen.status)
  BY <1>1, BegunIsGood, NamesAssumption
<1>3. PICK new : new = [begun EXCEPT !.supplier = s]
  OBVIOUS
<1>4. new \in CallState
  BY <1>1, <1>3 DEF CallState
<1>5. Good(new)
  BY <1>1, <1>2, <1>3, NamesAssumption DEF Good, CallState
<1>6. Continues(c, new)
  BY <1>1, <1>3 DEF SynchronizeReads
<1>7. UNCHANGED <<tender, Artifacts, moved>> /\ updates' \in Nat
  BY DEF SynchronizeReads, History, IInv, TypeOK
<1> QED  BY <1>4, <1>5, <1>6, <1>7, ReadKeepsInv

LEMMA UploadReadsInv == ASSUME IInv, NEW c \in Calls, UploadReads(c) PROVE IInv'
<1>1. UNCHANGED <<tender, Artifacts, moved>> /\ updates' \in Nat
  BY DEF UploadReads, History, IInv, TypeOK
<1>2. CASE Ends(c)
  BY <1>1, <1>2, IdleIsGood, ReadKeepsInv DEF Ends
<1>3. CASE Continues(c, [call[c] EXCEPT !.at = "upload", !.seen = tender])
  <2>1. PICK k \in CallState : k = call[c]
    BY CallIsGood
  <2>2. Good(k) /\ k.at = "synchronized" /\ tender # Absent
    BY <2>1, CallIsGood, NamesAssumption DEF UploadReads, At, IInv, TypeOK
  <2>3. PICK new : new = [k EXCEPT !.at = "upload", !.seen = tender]
    OBVIOUS
  <2>4. new \in CallState
    BY <2>1, <2>3 DEF CallState, IInv, TypeOK
  <2>5. Good(new)
    BY <2>1, <2>2, <2>3 DEF Good, CallState, IInv
  <2> QED  BY <1>1, <1>3, <2>1, <2>3, <2>4, <2>5, ReadKeepsInv
<1> QED  BY <1>2, <1>3 DEF UploadReads

\* A comparison begins with a key made of the latest snapshot and of quotes that
\* are approved.
LEMMA KeyReadInv ==
  ASSUME IInv, NEW c \in Calls, NEW at \in {"compare", "legacy"},
         NEW key, key = [snapshot |-> snapshots, quotes |-> Approved],
         snapshots > 0, Approved # {},
         Continues(c, [Begins(c, at) EXCEPT !.key = key]),
         UNCHANGED <<tender, Artifacts, History>>
  PROVE  IInv'
<1>1. PICK begun \in CallState : begun = Begins(c, at)
  BY BegunIsGood
<1>2. begun.at = at /\ begun.seen # Absent /\ Earned(begun.seen.status)
  BY <1>1, BegunIsGood, NamesAssumption
<1>3. key \in Key /\ Grounded(key)
  BY BoundsAssumption DEF Key, Versions, Grounded, Approved, IInv, TypeOK
<1>4. PICK new : new = [begun EXCEPT !.key = key]
  OBVIOUS
<1>5. new \in CallState
  BY <1>1, <1>3, <1>4 DEF CallState
<1>6. Good(new)
  BY <1>1, <1>2, <1>3, <1>4 DEF Good, CallState
<1>7. Continues(c, new)
  BY <1>1, <1>4
<1>8. UNCHANGED <<tender, Artifacts, moved>> /\ updates' \in Nat
  BY DEF History, IInv, TypeOK
<1> QED  BY <1>5, <1>6, <1>7, <1>8, ReadKeepsInv

LEMMA CompareReadsInv == ASSUME IInv, NEW c \in Calls, CompareReads(c) PROVE IInv'
<1>1. PICK key : key = [snapshot |-> snapshots, quotes |-> Approved]
  OBVIOUS
<1> QED  BY <1>1, KeyReadInv DEF CompareReads

LEMMA LegacyReadsInv == ASSUME IInv, NEW c \in Calls, LegacyReads(c) PROVE IInv'
<1>1. PICK key : key = [snapshot |-> snapshots, quotes |-> Approved]
  OBVIOUS
<1> QED  BY <1>1, KeyReadInv DEF LegacyReads

LEMMA RecommendReadsInv ==
  ASSUME IInv, NEW c \in Calls, NEW x \in comparisons, NEW weights \in Weights,
         RecommendReads(c, x, weights)
  PROVE  IInv'
<1>1. PICK y : y = x
  OBVIOUS
<1>2. y \in Comparison /\ y \in comparisons /\ y.status = "ready" /\ weights # Absent
  BY <1>1, NamesAssumption DEF IInv, TypeOK, RecommendReads
<1>3. PICK new : new = [Idle EXCEPT !.at = "recommend", !.comparison = y, !.weights = weights]
  OBVIOUS
<1>4. new \in CallState /\ Good(new)
  BY <1>2, <1>3, IdleIsGood DEF CallState, Good, Idle
<1>5. Continues(c, new) /\ UNCHANGED <<tender, Artifacts, moved>> /\ updates' \in Nat
  BY <1>1, <1>3 DEF RecommendReads, History, IInv, TypeOK
<1> QED  BY <1>4, <1>5, ReadKeepsInv

-----------------------------------------------------------------------------
(* The calls that write *)

LEMMA UpdateTenderInv ==
  ASSUME IInv, NEW c \in Calls, NEW status \in TenderStatus, UpdateTender(c, status) PROVE IInv'
<1>1. PICK k \in CallState : k = call[c]
  BY CallIsGood
<1>2. k.seen \in Tender /\ tender' = [k.seen EXCEPT !.status = status] /\ moved' = moved \cup {status}
  BY <1>1, CallIsGood DEF UpdateTender, At, Good, CallState
<1>3. UNCHANGED <<documents, snapshots, item, rfq, quote, comparisons, legacy, recommendations, updates>>
  BY DEF UpdateTender, Artifacts
<1>4. Forward
  BY <1>2, <1>3 DEF Forward, Approved, IInv, TypeOK
<1>5. tender' \in Tender /\ tender'.status = status
  BY <1>2 DEF Tender
<1>6. RowsTyped'
  BY <1>2, <1>3, <1>5 DEF IInv, TypeOK, RowsTyped
<1>7. Earned(tender.status)'
  BY <1>2, <1>5 DEF Earned
<1>8. Ends(c) /\ OneResultPerKey'
  BY <1>3 DEF UpdateTender, IInv, OneResultPerKey
<1> QED  BY <1>3, <1>4, <1>6, <1>7, <1>8, EndsWell, StepKeepsInv

LEMMA ArchiveTenderInv == ASSUME IInv, NEW c \in Calls, ArchiveTender(c) PROVE IInv'
<1>1. PICK k \in CallState : k = call[c]
  BY CallIsGood
<1>2. k.seen \in Tender /\ Earned(k.seen.status) /\ tender' = [k.seen EXCEPT !.archived = TRUE]
  BY <1>1, CallIsGood DEF ArchiveTender, At, Good, CallState
<1>3. UNCHANGED <<documents, snapshots, item, rfq, quote, comparisons, legacy, recommendations,
                  moved, updates>>
  BY DEF ArchiveTender, Artifacts, History
<1>4. Forward
  BY <1>3 DEF Forward, Approved, IInv, TypeOK
<1>5. tender' \in Tender /\ tender'.status = k.seen.status
  BY <1>2 DEF Tender
<1>6. RowsTyped'
  BY <1>3, <1>5 DEF IInv, TypeOK, RowsTyped
<1>7. Earned(tender.status)'
  BY <1>2, <1>4, <1>5, StaysEarned
<1>8. Ends(c) /\ OneResultPerKey'
  BY <1>3 DEF ArchiveTender, IInv, OneResultPerKey
<1> QED  BY <1>3, <1>4, <1>6, <1>7, <1>8, EndsWell, StepKeepsInv

LEMMA UploadDocumentInv == ASSUME IInv, NEW c \in Calls, UploadDocument(c) PROVE IInv'
<1>1. PICK k \in CallState : k = call[c]
  BY CallIsGood
<1>2. k.seen \in Tender
  BY <1>1, CallIsGood DEF UploadDocument, At, Good, CallState
<1>3. \/ tender' = tender
      \/ tender' = [k.seen EXCEPT !.status = "documents_pending"]
  BY <1>1 DEF UploadDocument
<1>4. /\ UNCHANGED <<snapshots, item, rfq, quote, comparisons, legacy, recommendations, moved, updates>>
      /\ documents' = "processing"
  BY DEF UploadDocument, History
<1>5. Forward
  BY <1>4 DEF Forward, Approved, IInv, TypeOK
<1>6. /\ tender' \in Tender
      /\ tender' = tender \/ tender'.status = "documents_pending"
  BY <1>2, <1>3 DEF Tender, TenderStatus, IInv, TypeOK
<1>7. RowsTyped'
  BY <1>4, <1>6 DEF IInv, TypeOK, RowsTyped
<1>8. tender' = tender \/ Earned(tender.status)'
  BY <1>6 DEF Earned
<1>9. Ends(c) /\ OneResultPerKey'
  BY <1>4 DEF UploadDocument, IInv, OneResultPerKey
<1> QED  BY <1>4, <1>5, <1>7, <1>8, <1>9, EndsWell, StepKeepsInv

LEMMA GenerateRfqsInv == ASSUME IInv, NEW c \in Calls, GenerateRfqs(c) PROVE IInv'
<1>1. PICK new : /\ \A p \in new : rfq[p] = "none"
                 /\ rfq' = [p \in Suppliers \X Versions |->
                              IF p \in new THEN "pending_review" ELSE rfq[p]]
  BY DEF GenerateRfqs
<1>2. UNCHANGED <<tender, documents, snapshots, item, quote, comparisons, legacy, recommendations,
                  moved, updates>>
  BY DEF GenerateRfqs, History
<1>3. Forward
  BY <1>1, <1>2 DEF Forward, Approved, IInv, TypeOK
<1>4. rfq' \in [Suppliers \X Versions -> RfqStatus]
  BY <1>1 DEF IInv, TypeOK, RfqStatus
<1>5. RowsTyped'
  BY <1>2, <1>4 DEF IInv, TypeOK, RowsTyped
<1>6. Ends(c) /\ OneResultPerKey'
  BY <1>2 DEF GenerateRfqs, IInv, OneResultPerKey
<1> QED  BY <1>2, <1>3, <1>5, <1>6, EndsWell, StepKeepsInv

\* The call goes on after a commit, without the tender it had read.
LEMMA GoesOnWell ==
  ASSUME IInv, NEW c \in Calls, NEW k \in CallState, k = call[c], k.supplier # Absent,
         NEW at \in {"synchronized", "uploaded"},
         Continues(c, [k EXCEPT !.at = at, !.seen = Absent])
  PROVE  /\ call' \in [Calls -> CallState]
         /\ \A d \in Calls : call'[d] = call[d] \/ Good(call[d])'
<1>1. PICK new : new = [k EXCEPT !.at = at, !.seen = Absent]
  OBVIOUS
<1>2. new \in CallState
  BY <1>1 DEF CallState
<1>3. Good(new)'
  BY <1>1 DEF Good, CallState
<1>4. call' \in [Calls -> CallState] /\ \A d \in Calls : call'[d] = call[d] \/ call'[d] = new
  BY <1>1, <1>2 DEF Continues, IInv, TypeOK
<1> QED  BY <1>3, <1>4

LEMMA SynchronizeInv == ASSUME IInv, NEW c \in Calls, Synchronize(c) PROVE IInv'
<1>1. PICK k \in CallState : k = call[c]
  BY CallIsGood
<1>2. k.seen \in Tender /\ k.supplier # Absent
  BY <1>1, CallIsGood DEF Synchronize, At, Good, CallState
<1>3. \/ tender' = tender
      \/ tender' = [k.seen EXCEPT !.status = "waiting_quotes"] /\ Invited # {}
  BY <1>1 DEF Synchronize
<1>4. UNCHANGED <<documents, snapshots, item, rfq, quote, comparisons, legacy, recommendations,
                  moved, updates>>
  BY DEF Synchronize, Artifacts, History
<1>5. Forward
  BY <1>4 DEF Forward, Approved, IInv, TypeOK
<1>6. /\ tender' \in Tender
      /\ tender' = tender \/ (tender'.status = "waiting_quotes" /\ Invited # {})
  BY <1>2, <1>3 DEF Tender, TenderStatus, IInv, TypeOK
<1>7. RowsTyped'
  BY <1>4, <1>6 DEF IInv, TypeOK, RowsTyped
<1>8. Invited' = Invited
  BY <1>4 DEF Invited
<1>9. tender' = tender \/ Earned(tender.status)'
  BY <1>6, <1>8 DEF Earned
<1>10. OneResultPerKey'
  BY <1>4 DEF IInv, OneResultPerKey
<1>11. Continues(c, [k EXCEPT !.at = "synchronized", !.seen = Absent])
  BY <1>1 DEF Synchronize
<1> QED  BY <1>1, <1>2, <1>4, <1>5, <1>7, <1>9, <1>10, <1>11, GoesOnWell, StepKeepsInv

LEMMA UploadQuoteInv ==
  ASSUME IInv, NEW c \in Calls, NEW v \in Versions, UploadQuote(c, v) PROVE IInv'
<1>1. PICK k \in CallState : k = call[c]
  BY CallIsGood
<1>2. k.seen \in Tender /\ Earned(k.seen.status) /\ k.supplier \in Suppliers /\ k.supplier # Absent
  BY <1>1, CallIsGood DEF UploadQuote, At, Good, CallState
<1>3. PICK s \in Suppliers :
        /\ s = k.supplier
        /\ quote[s] = "none" /\ rfq[<<s, v>>] \in {"sent", "responded"}
        /\ quote' = [quote EXCEPT ![s] = "validating"]
        /\ item' = [item EXCEPT ![s] = "responded"]
        /\ rfq' = [rfq EXCEPT ![<<s, v>>] = "responded"]
  BY <1>1, <1>2 DEF UploadQuote
<1>4. PICK status \in TenderStatus :
        /\ tender' = [k.seen EXCEPT !.status = status]
        /\ status = k.seen.status \/ status = "quote_analysis"
  BY <1>1, <1>2 DEF UploadQuote, Advanced, Tender, TenderStatus
<1>5. UNCHANGED <<documents, snapshots, comparisons, legacy, recommendations, moved, updates>>
  BY DEF UploadQuote, History
<1>6. \A t \in Suppliers : quote[t] # "none" => quote'[t] = quote[t]
  BY <1>3 DEF IInv, TypeOK
<1>7. Forward
  <2>1. Approved \subseteq Approved'
    BY <1>6 DEF Approved
  <2>2. \A p \in Suppliers \X Versions :
          rfq[p] \in {"sent", "responded"} => rfq'[p] \in {"sent", "responded"}
    BY <1>3 DEF IInv, TypeOK
  <2> QED  BY <1>5, <1>6, <2>1, <2>2 DEF Forward, IInv, TypeOK
<1>8. tender' \in Tender /\ tender'.status = status
  BY <1>2, <1>4 DEF Tender
<1>9. RowsTyped'
  BY <1>3, <1>5, <1>8 DEF IInv, TypeOK, RowsTyped, ItemStatus, RfqStatus, QuoteStatus
<1>10. Earned(status)'
  <2>1. CASE status = k.seen.status
    BY <1>2, <1>7, <2>1, StaysEarned
  <2>2. CASE status = "quote_analysis"
    <3>1. quote'[s] # "none"
      BY <1>3 DEF IInv, TypeOK
    <3> QED  BY <2>2, <3>1 DEF Earned
  <2> QED  BY <1>4, <2>1, <2>2
<1>11. Earned(tender.status)'
  BY <1>8, <1>10
<1>12. OneResultPerKey'
  BY <1>5 DEF IInv, OneResultPerKey
<1>13. Continues(c, [k EXCEPT !.at = "uploaded", !.seen = Absent])
  BY <1>1 DEF UploadQuote
<1> QED  BY <1>1, <1>2, <1>5, <1>7, <1>9, <1>11, <1>12, <1>13, GoesOnWell, StepKeepsInv

\* A step of one quote, which no longer is as new as it was.
LEMMA QuoteStepKeepsInv ==
  ASSUME IInv, NEW s \in Suppliers, NEW status \in QuoteStatus, quote[s] # "none",
         status # "none", quote[s] \in {"approved", "included_in_comparison"} =>
           status \in {"approved", "included_in_comparison"},
         quote' = [quote EXCEPT ![s] = status],
         UNCHANGED <<tender, documents, snapshots, item, rfq, comparisons, legacy,
                     recommendations, History>>,
         call' \in [Calls -> CallState], \A d \in Calls : call'[d] = call[d] \/ Good(call[d])'
  PROVE  IInv'
<1>1. \A t \in Suppliers : quote'[t] = IF t = s THEN status ELSE quote[t]
  BY DEF IInv, TypeOK
<1>2. Approved \subseteq Approved'
  BY <1>1 DEF Approved
<1>3. UNCHANGED <<moved, updates>>
  BY DEF History
<1>4. Forward
  BY <1>1, <1>2, <1>3 DEF Forward, IInv, TypeOK
<1>5. RowsTyped'
  BY <1>3 DEF IInv, TypeOK, RowsTyped
<1>6. OneResultPerKey'
  BY DEF IInv, OneResultPerKey
<1> QED  BY <1>4, <1>5, <1>6, StepKeepsInv

LEMMA MarkReadyInv == ASSUME IInv, NEW c \in Calls, MarkReady(c) PROVE IInv'
<1>1. PICK k \in CallState : k = call[c]
  BY CallIsGood
<1>2. k.supplier \in Suppliers
  BY <1>1, CallIsGood DEF MarkReady, At, Good, CallState
<1>3. "ready_for_analysis" \in QuoteStatus
  BY DEF QuoteStatus
<1> QED  BY <1>1, <1>2, <1>3, EndsWell, QuoteStepKeepsInv DEF MarkReady

LEMMA QuoteMovesInv == ASSUME IInv, NEW s \in Suppliers, QuoteMoves(s) PROVE IInv'
<1>1. PICK status \in {"in_review", "approved"} :
        quote[s] \in {"validating", "ready_for_analysis", "in_review"}
        /\ quote' = [quote EXCEPT ![s] = status]
  BY DEF QuoteMoves
<1>2. status \in QuoteStatus /\ call' = call
  BY DEF QuoteStatus, QuoteMoves, Others
<1>3. call' \in [Calls -> CallState]
  BY <1>2 DEF IInv, TypeOK
<1>4. UNCHANGED <<comparisons, legacy, recommendations, History>>
  BY DEF QuoteMoves, Others
<1> QED  BY <1>1, <1>2, <1>3, <1>4, QuoteStepKeepsInv DEF QuoteMoves

LEMMA CompareInv ==
  ASSUME IInv, NEW c \in Calls, NEW status \in {"ready", "invalid"}, Compare(c, status) PROVE IInv'
<1>1. PICK k \in CallState : k = call[c]
  BY CallIsGood
<1>2. k.seen \in Tender /\ Grounded(k.key) /\ k.key \in Key
  BY <1>1, CallIsGood DEF Compare, At, Good, CallState
<1>n. PICK new : new = [key |-> k.key, status |-> status, by |-> c]
  OBVIOUS
<1>3. /\ new \in Comparison /\ new.key = k.key /\ new.status = status
      /\ comparisons' = comparisons \cup {new}
      /\ \A x \in comparisons : x.key # new.key
  <2>1. new \in Comparison /\ new.key = k.key /\ new.status = status
    BY <1>2, <1>n DEF Comparison
  <2>2. comparisons' = comparisons \cup {new} /\ \A x \in comparisons : x.key # k.key
    BY <1>1, <1>n DEF Compare
  <2> QED  BY <2>1, <2>2
<1>4. \/ tender' = tender
      \/ status = "ready" /\ tender' = [k.seen EXCEPT !.status = "comparison_ready"]
  BY <1>1 DEF Compare
<1>5. UNCHANGED <<documents, snapshots, item, rfq, quote, legacy, recommendations, moved, updates>>
  BY DEF Compare, History
<1>6. Forward
  BY <1>3, <1>5 DEF Forward, Approved, IInv, TypeOK
<1>7. /\ tender' \in Tender
      /\ tender' = tender \/ (tender'.status = "comparison_ready" /\ status = "ready")
  BY <1>2, <1>4 DEF Tender, TenderStatus, IInv, TypeOK
<1>8. RowsTyped'
  BY <1>3, <1>5, <1>7 DEF IInv, TypeOK, RowsTyped
<1>9. tender' = tender \/ Earned(tender.status)'
  BY <1>3, <1>7 DEF Earned
<1>10. \A x \in comparisons' : x \in comparisons \/ Grounded(x.key)'
  BY <1>2, <1>3, <1>5 DEF Grounded, Approved
<1>11. OneResultPerKey'
  BY <1>3, <1>5 DEF IInv, OneResultPerKey
<1>12. Ends(c)
  BY DEF Compare
<1> QED  BY <1>5, <1>6, <1>8, <1>9, <1>10, <1>11, <1>12, EndsWell, StepKeepsInv

LEMMA LegacyCompareInv == ASSUME IInv, NEW c \in Calls, LegacyCompare(c) PROVE IInv'
<1>1. PICK k \in CallState : k = call[c]
  BY CallIsGood
<1>2. k.seen \in Tender /\ k.key \in Key /\ Grounded(k.key)
  BY <1>1, CallIsGood DEF LegacyCompare, At, Good, CallState
<1>3. /\ legacy' = legacy \cup {k.key}
      /\ quote' = [s \in Suppliers |->
                     IF s \in k.key.quotes THEN "included_in_comparison" ELSE quote[s]]
      /\ \/ tender' = tender
         \/ tender' = [k.seen EXCEPT !.status = "comparison_ready"]
  BY <1>1 DEF LegacyCompare
<1>4. UNCHANGED <<documents, snapshots, item, rfq, comparisons, recommendations, moved, updates>>
  BY DEF LegacyCompare, History
<1>5. Approved \subseteq Approved'
  BY <1>3 DEF Approved
<1>6. Forward
  BY <1>3, <1>4, <1>5 DEF Forward, IInv, TypeOK
<1>7. /\ tender' \in Tender
      /\ tender' = tender \/ tender'.status = "comparison_ready"
  BY <1>2, <1>3 DEF Tender, TenderStatus, IInv, TypeOK
<1>8. quote' \in [Suppliers -> QuoteStatus]
  BY <1>3 DEF QuoteStatus, IInv, TypeOK
<1>9. RowsTyped'
  BY <1>2, <1>3, <1>4, <1>7, <1>8 DEF IInv, TypeOK, RowsTyped
<1>10. tender' = tender \/ Earned(tender.status)'
  BY <1>3, <1>7 DEF Earned
<1>11. OneResultPerKey'
  BY <1>4 DEF IInv, OneResultPerKey
<1>12. Ends(c)
  BY DEF LegacyCompare
<1> QED  BY <1>4, <1>6, <1>9, <1>10, <1>11, <1>12, EndsWell, StepKeepsInv

LEMMA RecommendInv == ASSUME IInv, NEW c \in Calls, Recommend(c) PROVE IInv'
<1>1. PICK k \in CallState : k = call[c]
  BY CallIsGood
<1>2. /\ k.comparison \in comparisons /\ k.comparison \in Comparison
      /\ k.comparison.status = "ready" /\ k.weights \in Weights
  BY <1>1, CallIsGood DEF Recommend, At, Good, CallState, IInv, TypeOK
<1>n. PICK new : new = [comparison |-> k.comparison, weights |-> k.weights, by |-> c]
  OBVIOUS
<1>3. /\ new \in Recommendation /\ new.comparison = k.comparison /\ new.weights = k.weights
      /\ recommendations' = recommendations \cup {new}
      /\ \A r \in recommendations : r.comparison # new.comparison \/ r.weights # new.weights
  <2>1. /\ new \in Recommendation
        /\ new.comparison = k.comparison /\ new.weights = k.weights
    BY <1>2, <1>n DEF Recommendation
  <2>2. /\ recommendations' = recommendations \cup {new}
        /\ ~Answered(k.comparison, k.weights)
    BY <1>1, <1>n DEF Recommend
  <2> QED  BY <2>1, <2>2 DEF Answered
<1>4. UNCHANGED <<tender, documents, snapshots, item, rfq, quote, comparisons, legacy, moved, updates>>
  BY DEF Recommend, History
<1>5. Forward
  BY <1>4 DEF Forward, Approved, IInv, TypeOK
<1>6. RowsTyped'
  BY <1>3, <1>4 DEF IInv, TypeOK, RowsTyped
<1>7. \A r \in recommendations' :
        r \in recommendations \/ (r.comparison \in comparisons' /\ r.comparison.status = "ready")
  BY <1>2, <1>3, <1>4
<1>8. OneResultPerKey'
  <2>1. \A x, y \in recommendations' :
          x.comparison = y.comparison /\ x.weights = y.weights => x = y
    BY <1>3 DEF IInv, OneResultPerKey
  <2> QED  BY <1>4, <2>1 DEF IInv, OneResultPerKey
<1>9. Ends(c)
  BY DEF Recommend
<1> QED  BY <1>4, <1>5, <1>6, <1>7, <1>8, <1>9, EndsWell, StepKeepsInv

-----------------------------------------------------------------------------
(* The steps of the other components *)

\* Documents, snapshots, suppliers and requests only get further.
LEMMA OutsideKeepsInv ==
  ASSUME IInv, UNCHANGED <<tender, quote, Others>>,
         documents' \in {"none", "processing", "ready"},
         snapshots' \in 0..MaxSnapshots, snapshots <= snapshots',
         item' \in [Suppliers -> ItemStatus], rfq' \in [Suppliers \X Versions -> RfqStatus],
         \A p \in Suppliers \X Versions :
           rfq[p] \in {"sent", "responded"} => rfq'[p] \in {"sent", "responded"}
  PROVE  IInv'
<1>1. UNCHANGED <<comparisons, legacy, recommendations, call, moved, updates>>
  BY DEF Others, History
<1>2. Forward
  BY <1>1 DEF Forward, Approved
<1>3. RowsTyped'
  BY <1>1 DEF IInv, TypeOK, RowsTyped
<1>4. OneResultPerKey'
  BY <1>1 DEF IInv, OneResultPerKey
<1>5. call' \in [Calls -> CallState]
  BY <1>1 DEF IInv, TypeOK
<1> QED  BY <1>1, <1>2, <1>3, <1>4, <1>5, StepKeepsInv

LEMMA OutsideInv == IInv /\ Outside => IInv'
<1> SUFFICES ASSUME IInv, Outside PROVE IInv'
  OBVIOUS
<1>0. TypeOK
  BY DEF IInv
<1>1. CASE DocumentsReady
  BY <1>0, <1>1, BoundsAssumption, OutsideKeepsInv DEF DocumentsReady, TypeOK
<1>2. CASE CatalogApproved
  BY <1>0, <1>2, BoundsAssumption, OutsideKeepsInv DEF CatalogApproved, TypeOK
<1>3. ASSUME NEW s \in Suppliers, SupplierApproved(s) PROVE IInv'
  <2>1. item' \in [Suppliers -> ItemStatus]
    BY <1>0, <1>3 DEF SupplierApproved, TypeOK, ItemStatus
  <2> QED  BY <1>0, <1>3, <2>1, BoundsAssumption, OutsideKeepsInv DEF SupplierApproved, TypeOK
<1>4. ASSUME NEW p \in Suppliers \X Versions, RfqSent(p) PROVE IInv'
  <2>1. /\ rfq' \in [Suppliers \X Versions -> RfqStatus]
        /\ \A q \in Suppliers \X Versions :
             rfq[q] \in {"sent", "responded"} => rfq'[q] \in {"sent", "responded"}
    BY <1>0, <1>4 DEF RfqSent, TypeOK, RfqStatus
  <2> QED  BY <1>0, <1>4, <2>1, BoundsAssumption, OutsideKeepsInv DEF RfqSent, TypeOK
<1> QED  BY <1>1, <1>2, <1>3, <1>4, QuoteMovesInv DEF Outside

LEMMA CallStepInv == ASSUME IInv, NEW c \in Calls, CallStep(c) PROVE IInv'
<1>1. \A at \in {"update", "archive"} : ChangeReads(c, at) => IInv'
  BY ChangeReadsInv
<1>2. \A status \in TenderStatus : UpdateTender(c, status) => IInv'
  BY UpdateTenderInv
<1>3. \A s \in Suppliers : SynchronizeReads(c, s) => IInv'
  BY SynchronizeReadsInv
<1>4. \A v \in Versions : UploadQuote(c, v) => IInv'
  BY UploadQuoteInv
<1>5. \A status \in {"ready", "invalid"} : Compare(c, status) => IInv'
  BY CompareInv
<1>6. \A x \in comparisons, weights \in Weights : RecommendReads(c, x, weights) => IInv'
  BY RecommendReadsInv
<1> QED  BY <1>1, <1>2, <1>3, <1>4, <1>5, <1>6, RaisesInv, ArchiveTenderInv, DocumentReadsInv,
            UploadDocumentInv, GenerateReadsInv, GenerateRfqsInv, SynchronizeInv, UploadReadsInv,
            MarkReadyInv, CompareReadsInv, LegacyReadsInv, LegacyCompareInv, RecommendInv
         DEF CallStep

LEMMA NextInv == IInv /\ [Next]_vars => IInv'
<1> SUFFICES ASSUME IInv, [Next]_vars PROVE IInv'
  OBVIOUS
<1>1. CASE UNCHANGED vars
  <2>1. UNCHANGED <<tender, quote, Others>> /\ UNCHANGED <<documents, snapshots, item, rfq>>
    BY <1>1 DEF vars, Others, History
  <2> QED  BY <2>1, BoundsAssumption, OutsideKeepsInv DEF IInv, TypeOK
<1>2. CASE Next
  BY <1>2, OutsideInv, CallStepInv DEF Next
<1> QED  BY <1>1, <1>2

-----------------------------------------------------------------------------
(* Theorems *)

LEMMA Invariance == Spec => []IInv
BY InitInv, NextInv, PTL DEF Spec

\* Every row and everything in progress is well typed.
THEOREM TypeCorrect == Spec => []TypeOK
BY Invariance, PTL DEF IInv

\* However many calls of use_cases/comparison.py overlap, equal sources have one
\* comparison, and a comparison has one recommendation for the same weights.
THEOREM OneResult == Spec => []OneResultPerKey
BY Invariance, PTL DEF IInv

\* Comparisons and recommendations rest on an approved snapshot and on quotes
\* that stay approved, whatever changed between the reading and the commit.
THEOREM Rests == Spec => []ResultsAreGrounded
BY Invariance, PTL DEF IInv

\* A stale row of the tender that is written back never takes it to a status
\* that neither its artifacts nor a user have brought it to.
THEOREM StatusEarned == Spec => []StatusIsEarned
<1>1. IInv => StatusIsEarned
  BY DEF IInv, Earned, StatusIsEarned
<1> QED  BY <1>1, Invariance, PTL
=============================================================================
