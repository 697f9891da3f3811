--------------------------- MODULE TenderWorkflow ---------------------------
(***************************************************************************)
(* One tender from its creation to a recommendation: the calls of the API  *)
(* that read the row of the tender, check it, and write it back, and what  *)
(* they leave behind: documents, requests for quotation, quotes,           *)
(* comparisons and recommendations.                                        *)
(*                                                                         *)
(* No call locks the tender.  A call is therefore two steps or more: what  *)
(* it reads first, and the commit, which reads the rest and writes.  The   *)
(* row of the tender is written whole, from what was read, and a unique    *)
(* key decides between two calls that create the same thing.               *)
(*                                                                         *)
(* What the other modules describe is one step here and marked as outside: *)
(* the documents become ready (DocumentPipeline), a catalog is approved    *)
(* (CatalogExtraction), a supplier is approved (SupplierDiscovery), a      *)
(* request is sent (RfqDelivery), a quote is analyzed and approved         *)
(* (QuoteAnalysis).  What a comparison and a recommendation contain is in  *)
(* ComparisonRules; here they are ready or not.                            *)
(***************************************************************************)
EXTENDS Naturals, FiniteSets

CONSTANTS
  Suppliers,     \* the suppliers of the tender, each with one file to quote
  Calls,         \* calls of the API in progress at a time
  Weights,       \* the weights a recommendation may be asked with
  Absent,        \* a tender that a call has not read
  MaxSnapshots,  \* bound: approvals of the catalog
  MaxUpdates     \* bound: calls of UpdateTender and ArchiveTender

VARIABLES
  tender,           \* tenders: the row
  documents,        \* tender_documents, all of them together
  snapshots,        \* the version of the latest catalog snapshot
  item,             \* tender_suppliers.status
  rfq,              \* rfq_requests.status, by supplier and snapshot
  quote,            \* quotes.status, by supplier
  comparisons,      \* comparisons
  legacy,           \* comparison_runs
  recommendations,  \* recommendations
  call,             \* what each call has read and is to do
  moved,            \* history: the statuses users moved the tender to
  updates           \* calls of UpdateTender and ArchiveTender so far

vars == <<tender, documents, snapshots, item, rfq, quote, comparisons, legacy,
          recommendations, call, moved, updates>>

-----------------------------------------------------------------------------
(* Values *)

TenderStatus ==
  {"draft", "documents_pending", "documents_processing", "catalog_review",
   "supplier_review", "rfq_ready", "waiting_quotes", "quote_analysis",
   "comparison_ready", "awarded", "closed", "cancelled"}

Tender == [status : TenderStatus, archived : BOOLEAN]

\* contacted has no writer.
ItemStatus == {"none", "approved", "responded"}

RfqStatus == {"none", "pending_review", "sent", "responded"}

\* "in_review": analyzing, analyzed and pending_review.
QuoteStatus == {"none", "validating", "ready_for_analysis", "in_review", "approved",
                "included_in_comparison"}

Versions == 1..MaxSnapshots

\* What both comparison keys are made of; an approved quote does not change.
Key == [snapshot : Versions, quotes : SUBSET Suppliers]

\* by: a comparison has an identifier of its own, whatever its key.
Comparison == [key : Key, status : {"ready", "invalid"}, by : Calls]

Recommendation == [comparison : Comparison, weights : Weights, by : Calls]

ASSUME BoundsAssumption == MaxSnapshots \in Nat \ {0} /\ MaxUpdates \in Nat

ASSUME NamesAssumption == Absent \notin Tender \cup Suppliers \cup Weights \cup Comparison

NoKey == [snapshot |-> 1, quotes |-> {}]

CallState ==
  [at : {"idle", "update", "archive", "document", "generate", "synchronize",
         "synchronized", "upload", "uploaded", "compare", "legacy", "recommend"},
   seen : Tender \cup {Absent}, supplier : Suppliers \cup {Absent},
   items : SUBSET Suppliers, key : Key, weights : Weights \cup {Absent},
   comparison : Comparison \cup {Absent}]

Idle == [at |-> "idle", seen |-> Absent, supplier |-> Absent, items |-> {},
         key |-> NoKey, weights |-> Absent, comparison |-> Absent]

-----------------------------------------------------------------------------
(* Domain rules *)

\* _ALLOWED_STATUS_TRANSITIONS.
Transitions == [s \in TenderStatus |->
  CASE s = "draft" -> {"documents_pending", "cancelled"}
    [] s = "documents_pending" -> {"documents_processing", "cancelled"}
    [] s = "documents_processing" -> {"catalog_review", "cancelled"}
    [] s = "catalog_review" -> {"supplier_review", "cancelled"}
    [] s = "supplier_review" -> {"rfq_ready", "cancelled"}
    [] s = "rfq_ready" -> {"waiting_quotes", "cancelled"}
    [] s = "waiting_quotes" -> {"quote_analysis", "cancelled"}
    [] s = "quote_analysis" -> {"comparison_ready", "cancelled"}
    [] s = "comparison_ready" -> {"awarded", "closed", "cancelled"}
    [] s = "awarded" -> {"closed"}
    [] OTHER -> {}]

\* The statuses from which synchronization walks on to waiting_quotes.
BeforeQuotes == {"draft", "documents_pending", "documents_processing", "catalog_review",
                 "supplier_review", "rfq_ready", "waiting_quotes"}

\* _advance_to_quote_analysis: the supplier is approved, the request was sent.
Advanced(status, catalogReady) ==
  IF \/ status \in {"supplier_review", "rfq_ready", "waiting_quotes"}
     \/ status = "catalog_review" /\ catalogReady
    THEN "quote_analysis" ELSE status

Approved == {s \in Suppliers : quote[s] \in {"approved", "included_in_comparison"}}

Invited == {s \in Suppliers : \E v \in Versions : rfq[<<s, v>>] \in {"sent", "responded"}}

Engaged == {"approved", "responded"}

-----------------------------------------------------------------------------
Init ==
  /\ tender = [status |-> "draft", archived |-> FALSE]
  /\ documents = "none"
  /\ snapshots = 0
  /\ item = [s \in Suppliers |-> "none"]
  /\ rfq = [p \in Suppliers \X Versions |-> "none"]
  /\ quote = [s \in Suppliers |-> "none"]
  /\ comparisons = {}
  /\ legacy = {}
  /\ recommendations = {}
  /\ call = [c \in Calls |-> Idle]
  /\ moved = {}
  /\ updates = 0

-----------------------------------------------------------------------------
(* Calls *)

Artifacts == <<documents, snapshots, item, rfq, quote, comparisons, legacy, recommendations>>

History == <<moved, updates>>

At(c, at) == call[c].at = at

Begins(c, at) == [Idle EXCEPT !.at = at, !.seen = tender]

Continues(c, next) == call' = [call EXCEPT ![c] = next]

Ends(c) == Continues(c, Idle)

\* An exception: the transaction that is open is rolled back.
Raises(c) ==
  /\ ~At(c, "idle")
  /\ Ends(c)
  /\ UNCHANGED <<tender, Artifacts, History>>

\* UpdateTender and ArchiveTender; what they read, first.
ChangeReads(c, at) ==
  /\ at \in {"update", "archive"}
  /\ At(c, "idle") /\ ~tender.archived
  /\ updates < MaxUpdates /\ updates' = updates + 1
  /\ Continues(c, Begins(c, at))
  /\ UNCHANGED <<tender, Artifacts, moved>>

\* replace_details: the status that is asked for, or the one that was read.
UpdateTender(c, status) ==
  /\ At(c, "update")
  /\ status \in Transitions[call[c].seen.status] \cup {call[c].seen.status}
  /\ tender' = [call[c].seen EXCEPT !.status = status]
  /\ moved' = moved \cup {status}
  /\ Ends(c)
  /\ UNCHANGED <<Artifacts, updates>>

ArchiveTender(c) ==
  /\ At(c, "archive")
  /\ tender' = [call[c].seen EXCEPT !.archived = TRUE]
  /\ Ends(c)
  /\ UNCHANGED <<Artifacts, History>>

\* UploadTenderDocument: ensure_accepts_documents, then the document and, if the
\* tender was a draft, its row.
DocumentReads(c) ==
  /\ At(c, "idle")
  /\ ~tender.archived /\ tender.status \in {"draft", "documents_pending"}
  /\ Continues(c, Begins(c, "document"))
  /\ UNCHANGED <<tender, Artifacts, History>>

UploadDocument(c) ==
  /\ At(c, "document")
  /\ documents' = "processing"
  /\ tender' = IF call[c].seen.status = "draft"
               THEN [call[c].seen EXCEPT !.status = "documents_pending"] ELSE tender
  /\ Ends(c)
  /\ UNCHANGED <<snapshots, item, rfq, quote, comparisons, legacy, recommendations, History>>

\* GenerateTenderRfqs: one request for each approved supplier that has none for
\* the latest snapshot.  The suppliers are listed before anything is created.
GenerateReads(c) ==
  /\ At(c, "idle")
  /\ ~tender.archived /\ snapshots > 0
  /\ LET approved == {s \in Suppliers : item[s] = "approved"} IN
     /\ approved # {}
     /\ Continues(c, [Begins(c, "generate") EXCEPT !.key.snapshot = snapshots,
          !.items = {s \in approved : rfq[<<s, snapshots>>] = "none"}])
  /\ UNCHANGED <<tender, Artifacts, History>>

\* The key (tender_id, generation_key) rejects all, if one was created since.
GenerateRfqs(c) ==
  /\ At(c, "generate")
  /\ LET new == call[c].items \X {call[c].key.snapshot} IN
     /\ \A p \in new : rfq[p] = "none"
     /\ rfq' = [p \in Suppliers \X Versions |->
                  IF p \in new THEN "pending_review" ELSE rfq[p]]
  /\ Ends(c)
  /\ UNCHANGED <<tender, documents, snapshots, item, quote, comparisons, legacy,
                 recommendations, History>>

-----------------------------------------------------------------------------
(* UploadQuoteDocumentWorkflow and UploadSupplierQuoteWorkflow *)

SynchronizeReads(c, s) ==
  /\ At(c, "idle") /\ item[s] # "none"
  /\ ~tender.archived
  /\ tender.status \in BeforeQuotes \cup {"quote_analysis"}
  /\ Continues(c, [Begins(c, "synchronize") EXCEPT !.supplier = s])
  /\ UNCHANGED <<tender, Artifacts, History>>

\* Mutant of Synchronize: whether a request was sent is not checked.
SynchronizeAnyway(c) ==
  /\ At(c, "synchronize")
  /\ tender' = IF call[c].seen.status \in {"waiting_quotes", "quote_analysis"} THEN tender
               ELSE [call[c].seen EXCEPT !.status = "waiting_quotes"]
  /\ Continues(c, [call[c] EXCEPT !.at = "synchronized", !.seen = Absent])
  /\ UNCHANGED <<Artifacts, History>>

\* The tender walks to waiting_quotes because of what is there: documents, a
\* catalog, an approved supplier and a request that was sent to it.
Synchronize(c) ==
  /\ At(c, "synchronize")
  /\ \/ call[c].seen.status = "quote_analysis"
     \/ /\ documents = "ready" /\ snapshots > 0
        /\ item[call[c].supplier] \in Engaged /\ call[c].supplier \in Invited
  /\ tender' = IF call[c].seen.status \in {"waiting_quotes", "quote_analysis"} THEN tender
               ELSE [call[c].seen EXCEPT !.status = "waiting_quotes"]
  /\ Continues(c, [call[c] EXCEPT !.at = "synchronized", !.seen = Absent])
  /\ UNCHANGED <<Artifacts, History>>

\* UploadQuoteDocument starts over: the tender is only not to be closed.  A file
\* that was uploaded before ends the call.
UploadReads(c) ==
  /\ At(c, "synchronized")
  /\ ~tender.archived /\ tender.status \notin {"closed", "cancelled"}
  /\ item[call[c].supplier] \in Engaged
  /\ IF quote[call[c].supplier] # "none" THEN Ends(c)
     ELSE Continues(c, [call[c] EXCEPT !.at = "upload", !.seen = tender])
  /\ UNCHANGED <<tender, Artifacts, History>>

\* The quote, the supplier, the request it answers and the tender are written
\* together; the key (tender_id, supplier_id, file_hash) rejects a second quote.
UploadQuote(c, v) ==
  /\ At(c, "upload")
  /\ LET s == call[c].supplier IN
     /\ quote[s] = "none" /\ rfq[<<s, v>>] \in {"sent", "responded"}
     /\ quote' = [quote EXCEPT ![s] = "validating"]
     /\ item' = [item EXCEPT ![s] = "responded"]
     /\ rfq' = [rfq EXCEPT ![<<s, v>>] = "responded"]
  /\ tender' = [call[c].seen EXCEPT !.status = Advanced(@, snapshots > 0)]
  /\ Continues(c, [call[c] EXCEPT !.at = "uploaded", !.seen = Absent])
  /\ UNCHANGED <<documents, snapshots, comparisons, legacy, recommendations, History>>

\* A transaction of its own, with the row of the quote locked; it raises if the
\* quote was taken up in the meantime.  UploadSupplierQuoteWorkflow queues the
\* quote instead.
MarkReady(c) ==
  /\ At(c, "uploaded") /\ quote[call[c].supplier] = "validating"
  /\ quote' = [quote EXCEPT ![call[c].supplier] = "ready_for_analysis"]
  /\ Ends(c)
  /\ UNCHANGED <<tender, documents, snapshots, item, rfq, comparisons, legacy,
                 recommendations, History>>

-----------------------------------------------------------------------------
(* The comparisons *)

\* Mutant of CompareReads: every quote of the tender is compared.
CompareReadsAll(c) ==
  /\ At(c, "idle") /\ ~tender.archived
  /\ LET quotes == {s \in Suppliers : quote[s] # "none"}
         key == [snapshot |-> snapshots, quotes |-> quotes]
     IN /\ snapshots > 0 /\ quotes # {}
        /\ \A x \in comparisons : x.key # key
        /\ Continues(c, [Begins(c, "compare") EXCEPT !.key = key])
  /\ UNCHANGED <<tender, Artifacts, History>>

\* GenerateTenderComparison of use_cases/comparison.py; a comparison of this key
\* would be returned as it is.
CompareReads(c) ==
  /\ At(c, "idle") /\ ~tender.archived
  /\ LET key == [snapshot |-> snapshots, quotes |-> Approved] IN
     /\ snapshots > 0 /\ Approved # {}
     /\ \A x \in comparisons : x.key # key
     /\ Continues(c, [Begins(c, "compare") EXCEPT !.key = key])
  /\ UNCHANGED <<tender, Artifacts, History>>

\* Mutant of Compare: the key (tender_id, comparison_key) is missing.
CompareAgain(c, status) ==
  /\ At(c, "compare")
  /\ comparisons' = comparisons \cup {[key |-> call[c].key, status |-> status, by |-> c]}
  /\ tender' = IF status = "ready" /\ call[c].seen.status = "quote_analysis"
               THEN [call[c].seen EXCEPT !.status = "comparison_ready"] ELSE tender
  /\ Ends(c)
  /\ UNCHANGED <<documents, snapshots, item, rfq, quote, legacy, recommendations, History>>

\* The builder decides the status; only a ready comparison moves the tender on,
\* and only if it was read in quote_analysis.
Compare(c, status) ==
  /\ At(c, "compare")
  /\ \A x \in comparisons : x.key # call[c].key
  /\ comparisons' = comparisons \cup {[key |-> call[c].key, status |-> status, by |-> c]}
  /\ tender' = IF status = "ready" /\ call[c].seen.status = "quote_analysis"
               THEN [call[c].seen EXCEPT !.status = "comparison_ready"] ELSE tender
  /\ Ends(c)
  /\ UNCHANGED <<documents, snapshots, item, rfq, quote, legacy, recommendations, History>>

\* GenerateTenderComparison of use_cases/quotes.py, with a table of its own.
LegacyReads(c) ==
  /\ At(c, "idle") /\ ~tender.archived
  /\ LET key == [snapshot |-> snapshots, quotes |-> Approved] IN
     /\ snapshots > 0 /\ Approved # {} /\ key \notin legacy
     /\ Continues(c, [Begins(c, "legacy") EXCEPT !.key = key])
  /\ UNCHANGED <<tender, Artifacts, History>>

\* It takes the quotes in, and moves the tender on whatever the result is.
LegacyCompare(c) ==
  /\ At(c, "legacy") /\ call[c].key \notin legacy
  /\ legacy' = legacy \cup {call[c].key}
  /\ quote' = [s \in Suppliers |->
                 IF s \in call[c].key.quotes THEN "included_in_comparison" ELSE quote[s]]
  /\ tender' = IF call[c].seen.status = "quote_analysis"
               THEN [call[c].seen EXCEPT !.status = "comparison_ready"] ELSE tender
  /\ Ends(c)
  /\ UNCHANGED <<documents, snapshots, item, rfq, comparisons, recommendations, History>>

-----------------------------------------------------------------------------
(* GenerateRecommendation *)

Answered(x, weights) == \E r \in recommendations : r.comparison = x /\ r.weights = weights

\* One that was asked for before would be returned as it is.
RecommendReads(c, x, weights) ==
  /\ At(c, "idle")
  /\ x \in comparisons /\ x.status = "ready" /\ ~Answered(x, weights)
  /\ Continues(c, [Idle EXCEPT !.at = "recommend", !.comparison = x, !.weights = weights])
  /\ UNCHANGED <<tender, Artifacts, History>>

\* The key (comparison_id, recommendation_key) rejects the second of two equal
\* recommendations.
Recommend(c) ==
  /\ At(c, "recommend")
  /\ ~Answered(call[c].comparison, call[c].weights)
  /\ recommendations' = recommendations \cup
       {[comparison |-> call[c].comparison, weights |-> call[c].weights, by |-> c]}
  /\ Ends(c)
  /\ UNCHANGED <<tender, documents, snapshots, item, rfq, quote, comparisons, legacy, History>>

-----------------------------------------------------------------------------
(* Outside: what the other modules describe *)

Others == <<comparisons, legacy, recommendations, call, History>>

DocumentsReady ==
  /\ documents = "processing" /\ documents' = "ready"
  /\ UNCHANGED <<tender, snapshots, item, rfq, quote, Others>>

CatalogApproved ==
  /\ documents # "none" /\ snapshots < MaxSnapshots
  /\ snapshots' = snapshots + 1
  /\ UNCHANGED <<tender, documents, item, rfq, quote, Others>>

SupplierApproved(s) ==
  /\ snapshots > 0 /\ item[s] = "none"
  /\ item' = [item EXCEPT ![s] = "approved"]
  /\ UNCHANGED <<tender, documents, snapshots, rfq, quote, Others>>

RfqSent(p) ==
  /\ rfq[p] = "pending_review"
  /\ rfq' = [rfq EXCEPT ![p] = "sent"]
  /\ UNCHANGED <<tender, documents, snapshots, item, quote, Others>>

QuoteMoves(s) ==
  /\ \/ quote[s] \in {"validating", "ready_for_analysis"}
        /\ quote' = [quote EXCEPT ![s] = "in_review"]
     \/ quote[s] = "in_review" /\ quote' = [quote EXCEPT ![s] = "approved"]
  /\ UNCHANGED <<tender, documents, snapshots, item, rfq, Others>>

-----------------------------------------------------------------------------
CallStep(c) ==
  \/ Raises(c)
  \/ \E at \in {"update", "archive"} : ChangeReads(c, at)
  \/ (\E status \in TenderStatus : UpdateTender(c, status)) \/ ArchiveTender(c)
  \/ DocumentReads(c) \/ UploadDocument(c)
  \/ GenerateReads(c) \/ GenerateRfqs(c)
  \/ (\E s \in Suppliers : SynchronizeReads(c, s)) \/ Synchronize(c)
  \/ UploadReads(c) \/ (\E v \in Versions : UploadQuote(c, v)) \/ MarkReady(c)
  \/ CompareReads(c) \/ \E status \in {"ready", "invalid"} : Compare(c, status)
  \/ LegacyReads(c) \/ LegacyCompare(c)
  \/ \E x \in comparisons, weights \in Weights : RecommendReads(c, x, weights)
  \/ Recommend(c)

Outside ==
  \/ DocumentsReady \/ CatalogApproved
  \/ \E s \in Suppliers : SupplierApproved(s) \/ QuoteMoves(s)
  \/ \E p \in Suppliers \X Versions : RfqSent(p)

Next == Outside \/ \E c \in Calls : CallStep(c)

Spec == Init /\ [][Next]_vars

-----------------------------------------------------------------------------
(* Properties *)

\* Every row and everything in progress is well typed.
TypeOK ==
  /\ tender \in Tender
  /\ documents \in {"none", "processing", "ready"}
  /\ snapshots \in 0..MaxSnapshots
  /\ item \in [Suppliers -> ItemStatus]
  /\ rfq \in [Suppliers \X Versions -> RfqStatus]
  /\ quote \in [Suppliers -> QuoteStatus]
  /\ comparisons \subseteq Comparison
  /\ legacy \subseteq Key
  /\ recommendations \subseteq Recommendation
  /\ call \in [Calls -> CallState]
  /\ moved \subseteq TenderStatus
  /\ updates \in Nat

\* However calls overlap, equal sources have one comparison, and a comparison has
\* one recommendation for the same weights.
OneResultPerKey ==
  /\ \A x, y \in comparisons : x.key = y.key => x = y
  /\ \A x, y \in recommendations :
       x.comparison = y.comparison /\ x.weights = y.weights => x = y

\* What is compared and recommended rests on what people approved: a snapshot of
\* the catalog and quotes that are still approved; and only a stored comparison
\* that is ready is recommended from.
ResultsAreGrounded ==
  /\ \A x \in comparisons :
       x.key.snapshot <= snapshots /\ x.key.quotes # {} /\ x.key.quotes \subseteq Approved
  /\ \A r \in recommendations : r.comparison \in comparisons /\ r.comparison.status = "ready"

\* Whatever stale copies of the tender are written back: where no user moved it,
\* the tender is only where its artifacts have brought it.
StatusIsEarned ==
  /\ tender.status = "waiting_quotes" /\ "waiting_quotes" \notin moved => Invited # {}
  /\ tender.status = "quote_analysis" /\ "quote_analysis" \notin moved =>
       \E s \in Suppliers : quote[s] # "none"
  /\ tender.status = "comparison_ready" /\ "comparison_ready" \notin moved =>
       legacy # {} \/ \E x \in comparisons : x.status = "ready"

-----------------------------------------------------------------------------
(* Statements of the documentation that the code does not keep *)

\* docs/iteration-3-tender-management.md, table of the states: no status follows
\* cancelled.  A call that read the tender before writes its row back.
CancelledIsFinal == [][tender.status = "cancelled" => tender'.status = "cancelled"]_vars
=============================================================================
